---- MODULE Spec2Model ----
(***************************************************************************)
(* A model of the file-backed structured data store of src-tauri/src/      *)
(* database.rs (schema document + one text file per row), of the query /   *)
(* ETag-guarded update layer of src-tauri/src/lib.rs and of compute_etag   *)
(* in src-tauri/src/stories.rs.                                            *)
(*                                                                         *)
(* Text is modelled as a sequence of one-character strings, so that the    *)
(* row codec (serialize_row / parse_row) is computed character by          *)
(* character and is not the identity.  A row file                          *)
(*     "---\n" line_1 "\n" ... line_n "\n---" rest                          *)
(* is the record [yaml |-> <<line_1, ..., line_n>>, rest |-> rest], each    *)
(* line being [key |-> column id, val |-> the characters after "key: "].   *)
(* Field strings of the model contain no newline, so a line never spans    *)
(* two lines of the file.                                                  *)
(*                                                                         *)
(* Limits of the model: numbers are integers (no floats), next_row_id      *)
(* stays far below the 32-bit limit within the call budget, an empty       *)
(* header block reads as the empty map, and compute_etag is taken to be    *)
(* free of collisions.                                                     *)
(* A write of a file happens whole or not at all; a failing write is       *)
(* modelled for the row write of create_row and for the row writes of the  *)
(* migrations.  The iteration order of a HashMap is a choice among the     *)
(* orders of its keys.  Where callers interleave, the steps of a call are  *)
(* its reads and writes of files, each of them atomic.  The values of a    *)
(* column that a query sorts on are of one kind, as the column's type has  *)
(* them written, or missing.                                               *)
(***************************************************************************)
EXTENDS Integers, Sequences, FiniteSets, TLC

\* ------------------------------------------------------------------------
\* Option<T>: None is the empty sequence, Some(x) the one-element sequence
\* ------------------------------------------------------------------------

None == <<>>

Some(x) == <<x>>

IsSome(o) == Len(o) = 1

Unwrap(o) == o[1]

\* ------------------------------------------------------------------------
\* serde_json::Value
\* ------------------------------------------------------------------------

JStr(s) == [t |-> "str", s |-> s]

JNum(n) == [t |-> "num", n |-> n]

JBool(b) == [t |-> "bool", b |-> b]

JArr(a) == [t |-> "arr", a |-> a]

JNull == [t |-> "null"]

\* Value::as_str, with the unwrap_or("") of its callers
as_str_or_empty(v) == IF v.t = "str" THEN v.s ELSE <<>>

\* ------------------------------------------------------------------------
\* ColumnType
\* ------------------------------------------------------------------------

ColumnType == {"text", "number", "date", "select", "multi-select", "checkbox", "relation", "url"}

\* ColumnType::default_value, the YAML text of the default
default_value(col_type) ==
    CASE col_type = "number" -> <<"0">>
      [] col_type = "multi-select" -> <<"[", "]">>
      [] col_type = "checkbox" -> <<"f", "a", "l", "s", "e">>
      [] OTHER -> <<"\"", "\"">>

\* default_json_value
default_json_value(col_type) ==
    CASE col_type = "number" -> JNum(0)
      [] col_type = "multi-select" -> JArr(<<>>)
      [] col_type = "checkbox" -> JBool(FALSE)
      [] OTHER -> JStr(<<>>)

\* ------------------------------------------------------------------------
\* Integer formatting (format!("{}", n) on an i64) and its inverse
\* ------------------------------------------------------------------------

DigitChars == <<"0", "1", "2", "3", "4", "5", "6", "7", "8", "9">>

IsDigit(c) == \E d \in 1..10 : DigitChars[d] = c

DigitValue(c) == (CHOOSE d \in 1..10 : DigitChars[d] = c) - 1

RECURSIVE FormatNat(_)
FormatNat(n) ==
    IF n < 10 THEN <<DigitChars[n + 1]>>
    ELSE FormatNat(n \div 10) \o <<DigitChars[(n % 10) + 1]>>

FormatInt(n) == IF n < 0 THEN <<"-">> \o FormatNat(0 - n) ELSE FormatNat(n)

RECURSIVE ParseNat(_)
ParseNat(text) ==
    IF Len(text) = 0 THEN 0
    ELSE 10 * ParseNat(SubSeq(text, 1, Len(text) - 1)) + DigitValue(text[Len(text)])

AllDigits(text) == Len(text) > 0 /\ \A i \in 1..Len(text) : IsDigit(text[i])

\* ------------------------------------------------------------------------
\* The YAML reader (serde_yaml::from_str into HashMap<String, JsonValue>),
\* restricted to the scalars and flow sequences a header line can hold
\* ------------------------------------------------------------------------

YamlError == [t |-> "yaml-error"]

\* a plain (unquoted) scalar resolved by the YAML core schema
ResolvePlain(text) ==
    IF text = <<"t", "r", "u", "e">> THEN JBool(TRUE)
    ELSE IF text = <<"f", "a", "l", "s", "e">> THEN JBool(FALSE)
    ELSE IF text = <<"n", "u", "l", "l">> \/ text = <<"~">> THEN JNull
    ELSE IF AllDigits(text) THEN JNum(ParseNat(text))
    ELSE IF Len(text) > 1 /\ text[1] = "-" /\ AllDigits(Tail(text)) THEN JNum(0 - ParseNat(Tail(text)))
    ELSE JStr(text)

\* a double-quoted scalar: text[1] is the opening quote; a backslash escapes
\* a quote or a backslash, any other escape of the model's alphabet is
\* rejected, the first unescaped quote closes the scalar and nothing may
\* follow it on the line
RECURSIVE DecodeQuotedFrom(_, _, _)
DecodeQuotedFrom(text, i, acc) ==
    IF i > Len(text) THEN YamlError
    ELSE IF text[i] = "\"" THEN (IF i = Len(text) THEN JStr(acc) ELSE YamlError)
    ELSE IF text[i] = "\\" THEN
        IF i + 1 > Len(text) THEN YamlError
        ELSE IF text[i + 1] \in {"\\", "\""} THEN DecodeQuotedFrom(text, i + 2, Append(acc, text[i + 1]))
        ELSE YamlError
    ELSE DecodeQuotedFrom(text, i + 1, Append(acc, text[i]))

DecodeQuoted(text) == DecodeQuotedFrom(text, 2, <<>>)

RECURSIVE TrimSpaces(_)
TrimSpaces(text) ==
    IF Len(text) = 0 THEN text
    ELSE IF text[1] = " " THEN TrimSpaces(Tail(text))
    ELSE IF text[Len(text)] = " " THEN TrimSpaces(SubSeq(text, 1, Len(text) - 1))
    ELSE text

\* the entries of a flow sequence, split at the commas
RECURSIVE SplitComma(_, _, _)
SplitComma(text, cur, acc) ==
    IF Len(text) = 0 THEN Append(acc, TrimSpaces(cur))
    ELSE IF text[1] = "," THEN SplitComma(Tail(text), <<>>, Append(acc, TrimSpaces(cur)))
    ELSE SplitComma(Tail(text), Append(cur, text[1]), acc)

\* a flow sequence "[a, b]": an empty entry is an error unless it is the
\* (allowed) empty entry after a trailing comma or the whole of "[]"
DecodeFlowSeq(text) ==
    IF text[Len(text)] # "]" THEN YamlError
    ELSE LET inner == SubSeq(text, 2, Len(text) - 1)
             parts == SplitComma(inner, <<>>, <<>>)
             items == IF parts[Len(parts)] = <<>> THEN SubSeq(parts, 1, Len(parts) - 1) ELSE parts
         IN IF \E i \in 1..Len(items) : items[i] = <<>> \/ items[i][1] \in {"\"", "[", "]"}
            THEN YamlError
            ELSE JArr([i \in 1..Len(items) |-> ResolvePlain(items[i])])

\* the value of one "key: value" line
ParseYamlValue(text) ==
    IF Len(text) = 0 THEN JNull
    ELSE IF text[1] = "\"" THEN DecodeQuoted(text)
    ELSE IF text[1] = "[" THEN DecodeFlowSeq(text)
    ELSE ResolvePlain(text)

\* serde_yaml::from_str::<HashMap<String, JsonValue>> of a header block:
\* an error if a line does not parse or a key occurs twice, else the map
YamlKeys(yaml) == {yaml[i].key : i \in 1..Len(yaml)}

YamlIsMap(yaml) ==
    /\ \A i \in 1..Len(yaml) : ParseYamlValue(yaml[i].val) # YamlError
    /\ \A i, j \in 1..Len(yaml) : yaml[i].key = yaml[j].key => i = j

YamlMap(yaml) ==
    [k \in YamlKeys(yaml) |-> ParseYamlValue(yaml[CHOOSE i \in 1..Len(yaml) : yaml[i].key = k].val)]

\* ------------------------------------------------------------------------
\* Row codec
\* ------------------------------------------------------------------------

\* str::trim_start_matches('\n')
RECURSIVE trim_start_newlines(_)
trim_start_newlines(text) ==
    IF Len(text) > 0 /\ text[1] = "\n" THEN trim_start_newlines(Tail(text)) ELSE text

\* split_frontmatter on a file that has both delimiters: the header block
\* and the body
split_frontmatter(content) ==
    [yaml |-> content.yaml, body |-> trim_start_newlines(content.rest)]

\* json_value_to_yaml_line: the characters after "key: "
RECURSIVE JoinCommaSpace(_)
JoinCommaSpace(items) ==
    IF Len(items) = 0 THEN <<>>
    ELSE IF Len(items) = 1 THEN items[1]
    ELSE items[1] \o <<",", " ">> \o JoinCommaSpace(Tail(items))

json_value_to_yaml_line(key, value, col_type) ==
    [key |-> key,
     val |-> CASE col_type = "multi-select" ->
                    IF value.t = "arr"
                    THEN <<"[">> \o JoinCommaSpace([i \in 1..Len(value.a) |-> as_str_or_empty(value.a[i])]) \o <<"]">>
                    ELSE <<"[", "]">>
               [] col_type = "checkbox" ->
                    IF value.t = "bool" /\ value.b THEN <<"t", "r", "u", "e">> ELSE <<"f", "a", "l", "s", "e">>
               [] col_type = "number" ->
                    IF value.t = "num" THEN FormatInt(value.n) ELSE <<"0">>
               [] OTHER -> <<"\"">> \o as_str_or_empty(value) \o <<"\"">>]

\* serialize_row: one line per schema column, in schema order
serialize_row(fields, body, columns) ==
    [yaml |-> [i \in 1..Len(columns) |->
                  IF columns[i].id \in DOMAIN fields
                  THEN json_value_to_yaml_line(columns[i].id, fields[columns[i].id], columns[i].col_type)
                  ELSE [key |-> columns[i].id, val |-> default_value(columns[i].col_type)]],
     rest |-> IF body = <<>> THEN <<"\n">> ELSE <<"\n", "\n">> \o body]

ColumnIds(columns) == {columns[i].id : i \in 1..Len(columns)}

\* parse_row without the restriction of the header's keys to the columns
parse_row_all_keys(content, columns) ==
    LET fm == split_frontmatter(content)
    IN IF ~YamlIsMap(fm.yaml) THEN [ok |-> FALSE]
       ELSE [ok |-> TRUE, fields |-> YamlMap(fm.yaml), body |-> fm.body]

\* parse_row: the fields of the file that are schema columns, and the body
parse_row(content, columns) ==
    LET fm == split_frontmatter(content)
    IN IF ~YamlIsMap(fm.yaml) THEN [ok |-> FALSE]
       ELSE LET raw == YamlMap(fm.yaml)
            IN [ok |-> TRUE,
                fields |-> [k \in ColumnIds(columns) \cap DOMAIN raw |-> raw[k]],
                body |-> fm.body]

\* ------------------------------------------------------------------------
\* The database folder on disk and the callers' bookkeeping
\* ------------------------------------------------------------------------

VARIABLES
    schema_file,    \* the content of <folder>/_schema.md, or NoFile
    row_files,      \* file stem ("row-001") |-> content of <folder>/<stem>.md
    returned,       \* the row ids returned by the successful creates, in call order
    last,           \* the last call: its name, arguments and result
    calls,          \* the number of calls made so far
    codec,          \* a row on its way through serialize_row and parse_row
    callers,        \* the concurrent callers of the ETag-guarded update: where each is
    edits,          \* the number of modifications of the row file by someone else
    gaps            \* the row ids allocated by a create whose row write then failed

vars == <<schema_file, row_files, returned, last, calls, codec, callers, edits, gaps>>

disk == <<schema_file, row_files>>

NoFile == [missing |-> TRUE]

\* at most this many calls are made in one behaviour
MaxCalls == 5

\* ColumnDef
Col(id, name, col_type, options, target) ==
    [id |-> id, name |-> name, col_type |-> col_type, options |-> options, target |-> target]

\* ViewDef
View(id, view_type, group_by, columns, sort_by, sort_desc) ==
    [id |-> id, name |-> id, view_type |-> view_type, group_by |-> group_by,
     columns |-> columns, sort_by |-> sort_by, sort_desc |-> sort_desc]

\* DatabaseSchema
Schema(columns, views, next_row_id) ==
    [name |-> "Tasks", columns |-> columns, views |-> views, templates |-> <<>>,
     next_row_id |-> next_row_id]

\* the stem of the schema document, "_schema.md"
SchemaStem == <<"_", "s", "c", "h", "e", "m", "a">>

\* a schema document that holds the text of a row: serde finds neither
\* "name" nor "columns" in it (no column of the model has such an id)
NotASchema(content) == [overwritten_with |-> content]

\* parse_schema: the document decodes and passes the validation
parse_schema_ok(schema) ==
    /\ "columns" \in DOMAIN schema
    /\ \A i, j \in 1..Len(schema.columns) : schema.columns[i].id = schema.columns[j].id => i = j
    /\ \A i \in 1..Len(schema.columns) :
          LET col == schema.columns[i]
          IN /\ col.col_type \in {"select", "multi-select"} => (IsSome(col.options) /\ Unwrap(col.options) # <<>>)
             /\ col.col_type = "relation" => IsSome(col.target)

\* is_database_folder
is_database_folder(sf) == sf # NoFile

\* load_schema succeeds: the document is there and parse_schema accepts it
load_schema_ok(sf) == sf # NoFile /\ parse_schema_ok(sf)

\* format!("row-{:03}", id)
row_name(id) ==
    LET digits == FormatNat(id)
    IN <<"r", "o", "w", "-">> \o
       (IF Len(digits) = 1 THEN <<"0", "0">> ELSE IF Len(digits) = 2 THEN <<"0">> ELSE <<>>) \o digits

\* next_row_filename without the increment of the counter
next_row_filename_no_increment(schema) ==
    [name |-> row_name(schema.next_row_id), schema |-> schema]

\* next_row_filename: the name for the counter's value, and the schema with
\* the counter incremented
next_row_filename(schema) ==
    [name |-> row_name(schema.next_row_id),
     schema |-> [schema EXCEPT !.next_row_id = schema.next_row_id + 1]]

\* the characters of the model's texts, in the order of their byte values
ByteOrder ==
    <<"\n", " ", "\"", ",", "-",
      "0", "1", "2", "3", "4", "5", "6", "7", "8", "9",
      "A", "B", "C", "D", "E", "F", "G", "H", "I", "J", "K", "L", "M",
      "N", "O", "P", "Q", "R", "S", "T", "U", "V", "W", "X", "Y", "Z",
      "[", "\\", "]", "_",
      "a", "b", "c", "d", "e", "f", "g", "h", "i", "j", "k", "l", "m",
      "n", "o", "p", "q", "r", "s", "t", "u", "v", "w", "x", "y", "z", "~">>

\* the order of the characters (Ord for char, as str::cmp and Path::cmp use it)
CharOrd(c) == CHOOSE i \in 1..Len(ByteOrder) : ByteOrder[i] = c

RECURSIVE LexLess(_, _)
LexLess(a, b) ==
    IF Len(a) = 0 THEN Len(b) > 0
    ELSE IF Len(b) = 0 THEN FALSE
    ELSE IF a[1] = b[1] THEN LexLess(Tail(a), Tail(b))
    ELSE CharOrd(a[1]) < CharOrd(b[1])

\* list_row_files: the stems of the row files, sorted
RECURSIVE SortStems(_)
SortStems(S) ==
    IF S = {} THEN <<>>
    ELSE LET m == CHOOSE x \in S : \A y \in S \ {x} : LexLess(x, y)
         IN <<m>> \o SortStems(S \ {m})

list_row_files(files) == SortStems(DOMAIN files)

\* writing one file of the folder
WriteFile(files, stem, content) == [s \in DOMAIN files \cup {stem} |-> IF s = stem THEN content ELSE files[s]]

RemoveFile(files, stem) == [s \in DOMAIN files \ {stem} |-> files[s]]

\* the result of a call: the folder it leaves, Ok or Err with the error text's
\* first words, and the id of the row it returns
Result(sf, files, ok, err, id) == [schema_file |-> sf, row_files |-> files, ok |-> ok, err |-> err, id |-> id]

Fail(sf, files, err) == Result(sf, files, FALSE, err, None)

\* ------------------------------------------------------------------------
\* Row store
\* ------------------------------------------------------------------------

\* create_database (the folder of the model is the slug's folder)
create_database(sf, files, columns, views) ==
    IF sf # NoFile THEN Fail(sf, files, "already exists")
    ELSE Result(Schema(columns,
                       IF IsSome(views) THEN Unwrap(views)
                       ELSE <<[View("default-table", "table", None, None, None, None) EXCEPT !.name = "Table"]>>,
                       1),
                files, TRUE, "", None)

\* create_row
create_row(sf, files, fields, body) ==
    IF ~is_database_folder(sf) THEN Fail(sf, files, "is not a database folder")
    ELSE IF ~load_schema_ok(sf) THEN Fail(sf, files, "schema")
    ELSE LET alloc == next_row_filename(sf)
             content == serialize_row(fields, IF IsSome(body) THEN Unwrap(body) ELSE <<>>, alloc.schema.columns)
         IN Result(alloc.schema, WriteFile(files, alloc.name, content), TRUE, "", Some(alloc.name))

\* create_row when the write of the row file fails (std::fs::write returns an
\* error): the schema with the incremented counter is already saved
create_row_write_fails(sf, files) ==
    IF ~is_database_folder(sf) THEN Fail(sf, files, "is not a database folder")
    ELSE IF ~load_schema_ok(sf) THEN Fail(sf, files, "schema")
    ELSE Fail(next_row_filename(sf).schema, files, "Failed to write row file")

\* the overlay of the given fields on the existing ones
MergeFields(existing, fields) ==
    [k \in DOMAIN existing \cup DOMAIN fields |-> IF k \in DOMAIN fields THEN fields[k] ELSE existing[k]]

\* update_row: the file is <row_id>.md, whatever the row_id; with the row_id
\* "_schema" it is the schema document, which reads as a row without a
\* field of the schema and without body
update_row(sf, files, row_id, fields, body) ==
    IF ~is_database_folder(sf) THEN Fail(sf, files, "is not a database folder")
    ELSE IF ~load_schema_ok(sf) THEN Fail(sf, files, "schema")
    ELSE IF row_id = SchemaStem
         THEN Result(NotASchema(serialize_row(fields, IF IsSome(body) THEN Unwrap(body) ELSE <<>>, sf.columns)),
                     files, TRUE, "", Some(row_id))
    ELSE IF row_id \notin DOMAIN files THEN Fail(sf, files, "Row not found")
    ELSE LET existing == parse_row(files[row_id], sf.columns)
         IN IF ~existing.ok THEN Fail(sf, files, "Row file")
            ELSE LET content == serialize_row(MergeFields(existing.fields, fields),
                                              IF IsSome(body) THEN Unwrap(body) ELSE existing.body,
                                              sf.columns)
                 IN Result(sf, WriteFile(files, row_id, content), TRUE, "", Some(row_id))

\* delete_row
delete_row(sf, files, row_id) ==
    IF row_id = SchemaStem
    THEN IF sf = NoFile THEN Fail(sf, files, "Row not found") ELSE Result(NoFile, files, TRUE, "", None)
    ELSE IF row_id \notin DOMAIN files THEN Fail(sf, files, "Row not found")
    ELSE Result(sf, RemoveFile(files, row_id), TRUE, "", None)

\* ------------------------------------------------------------------------
\* Migration engine
\* ------------------------------------------------------------------------

\* the position of a stem in the sorted listing
StemIndex(order, stem) == CHOOSE i \in 1..Len(order) : order[i] = stem

\* the "for path in row_files" loop of a migration: every file is rewritten
\* by Rewrite (which skips a file by returning its content) until the first
\* file on which Rewrite returns an error, where the loop returns it
Sweep(files, Rewrite(_)) ==
    LET order == list_row_files(files)
        failing == {i \in 1..Len(order) : ~Rewrite(files[order[i]]).ok}
        stop == IF failing = {} THEN Len(order) + 1 ELSE CHOOSE i \in failing : \A j \in failing : i <= j
    IN [ok |-> failing = {},
        files |-> [s \in DOMAIN files |->
                      IF StemIndex(order, s) < stop THEN Rewrite(files[s]).content ELSE files[s]]]

Rewritten(content) == [ok |-> TRUE, content |-> content]

RewriteError == [ok |-> FALSE]

\* add_column's rewrite of one row file
add_column_row(content, columns) ==
    LET row == parse_row(content, columns)
        new_col == columns[Len(columns)]
    IN IF ~row.ok THEN Rewritten(content)
       ELSE Rewritten(serialize_row(
                IF new_col.id \in DOMAIN row.fields THEN row.fields
                ELSE MergeFields(row.fields, [k \in {new_col.id} |-> default_json_value(new_col.col_type)]),
                row.body, columns))

\* add_column without the test for a column of the same id
add_column_unchecked(sf, files, column) ==
    IF ~load_schema_ok(sf) THEN Fail(sf, files, "schema")
    ELSE Result([sf EXCEPT !.columns = Append(sf.columns, column)], files, TRUE, "", None)

\* add_column
add_column(sf, files, column) ==
    IF ~load_schema_ok(sf) THEN Fail(sf, files, "schema")
    ELSE IF \E i \in 1..Len(sf.columns) : sf.columns[i].id = column.id
    THEN Fail(sf, files, "Column already exists")
    ELSE LET schema == [sf EXCEPT !.columns = Append(sf.columns, column)]
             rewrite(content) == add_column_row(content, schema.columns)
             sweep == Sweep(files, rewrite)
         IN Result(schema, sweep.files, TRUE, "", None)

\* Vec::remove(idx)
RemoveAt(seq, idx) == SubSeq(seq, 1, idx - 1) \o SubSeq(seq, idx + 1, Len(seq))

\* Vec::retain(|c| c != x)
RECURSIVE Retain(_, _)
Retain(seq, x) ==
    IF Len(seq) = 0 THEN <<>>
    ELSE IF seq[1] = x THEN Retain(Tail(seq), x)
    ELSE <<seq[1]>> \o Retain(Tail(seq), x)

\* remove_column's scrub of one view
remove_column_view(view, column_id) ==
    LET sorted_by_it == view.sort_by = Some(column_id)
    IN [view EXCEPT
           !.columns = IF IsSome(view.columns) THEN Some(Retain(Unwrap(view.columns), column_id)) ELSE None,
           !.group_by = IF view.group_by = Some(column_id) THEN None ELSE view.group_by,
           !.sort_by = IF sorted_by_it THEN None ELSE view.sort_by,
           !.sort_desc = IF sorted_by_it THEN None ELSE view.sort_desc]

\* remove_column's rewrite of one row file
remove_column_row(content, columns, column_id) ==
    LET row == parse_row(content, columns)
    IN IF ~row.ok THEN Rewritten(content)
       ELSE Rewritten(serialize_row([k \in DOMAIN row.fields \ {column_id} |-> row.fields[k]], row.body, columns))

\* remove_column
remove_column(sf, files, column_id) ==
    IF ~load_schema_ok(sf) THEN Fail(sf, files, "schema")
    ELSE IF ~\E i \in 1..Len(sf.columns) : sf.columns[i].id = column_id
    THEN Fail(sf, files, "Column not found")
    ELSE LET col_idx == CHOOSE i \in 1..Len(sf.columns) :
                            /\ sf.columns[i].id = column_id
                            /\ \A j \in 1..(i - 1) : sf.columns[j].id # column_id
             schema == [sf EXCEPT !.columns = RemoveAt(sf.columns, col_idx),
                                  !.views = [v \in 1..Len(sf.views) |-> remove_column_view(sf.views[v], column_id)]]
             rewrite(content) == remove_column_row(content, schema.columns, column_id)
             sweep == Sweep(files, rewrite)
         IN Result(schema, sweep.files, TRUE, "", None)

\* a view left as it is
rename_column_view_unchanged(view, old_column_id, new_column_id) == view

\* rename_column's update of one view
rename_column_view(view, old_column_id, new_column_id) ==
    [view EXCEPT
        !.columns = IF IsSome(view.columns)
                    THEN Some([i \in 1..Len(Unwrap(view.columns)) |->
                                  IF Unwrap(view.columns)[i] = old_column_id THEN new_column_id
                                  ELSE Unwrap(view.columns)[i]])
                    ELSE None,
        !.group_by = IF view.group_by = Some(old_column_id) THEN Some(new_column_id) ELSE view.group_by,
        !.sort_by = IF view.sort_by = Some(old_column_id) THEN Some(new_column_id) ELSE view.sort_by]

\* the fields of a raw header map that are schema columns
ProjectFields(raw, columns) == [k \in ColumnIds(columns) \cap DOMAIN raw |-> raw[k]]

\* rename_column's rewrite of one row file: the raw header map is read, the
\* value moved from the old key to the new one, and the row re-serialized
rename_column_row(content, columns, old_column_id, new_column_id) ==
    LET fm == split_frontmatter(content)
    IN IF ~YamlIsMap(fm.yaml) THEN RewriteError
       ELSE LET raw == YamlMap(fm.yaml)
                moved == IF old_column_id \in DOMAIN raw
                         THEN [k \in (DOMAIN raw \ {old_column_id}) \cup {new_column_id} |->
                                  IF k = new_column_id THEN raw[old_column_id] ELSE raw[k]]
                         ELSE raw
            IN Rewritten(serialize_row(ProjectFields(moved, columns), fm.body, columns))

\* rename_column
rename_column(sf, files, old_column_id, new_column_id, new_name) ==
    IF ~load_schema_ok(sf) THEN Fail(sf, files, "schema")
    ELSE IF ~\E i \in 1..Len(sf.columns) : sf.columns[i].id = old_column_id
    THEN Fail(sf, files, "Column not found")
    ELSE IF old_column_id # new_column_id /\ \E i \in 1..Len(sf.columns) : sf.columns[i].id = new_column_id
    THEN Fail(sf, files, "Column already exists")
    ELSE LET first == CHOOSE i \in 1..Len(sf.columns) :
                          /\ sf.columns[i].id = old_column_id
                          /\ \A j \in 1..(i - 1) : sf.columns[j].id # old_column_id
             schema == [sf EXCEPT
                           !.columns[first] = [@ EXCEPT !.id = new_column_id,
                                                        !.name = IF IsSome(new_name) THEN Unwrap(new_name) ELSE @],
                           !.views = [v \in 1..Len(sf.views) |->
                                         rename_column_view(sf.views[v], old_column_id, new_column_id)]]
             rewrite(content) == rename_column_row(content, schema.columns, old_column_id, new_column_id)
             sweep == Sweep(files, rewrite)
         IN IF sweep.ok THEN Result(schema, sweep.files, TRUE, "", None)
            ELSE Fail(schema, sweep.files, "Row file")

\* update_schema's rewrite of one row file: a header that does not parse is
\* read as the empty map (unwrap_or_default)
update_schema_row(content, columns, added, removed) ==
    LET fm == split_frontmatter(content)
        raw == IF YamlIsMap(fm.yaml) THEN YamlMap(fm.yaml) ELSE <<>>
        added_ids == {added[i].id : i \in 1..Len(added)}
        with_defaults ==
            [k \in DOMAIN raw \cup added_ids |->
                IF k \in DOMAIN raw THEN raw[k]
                ELSE default_json_value(
                         added[CHOOSE i \in 1..Len(added) :
                                  /\ added[i].id = k
                                  /\ \A j \in 1..(i - 1) : added[j].id # k].col_type)]
        kept == [k \in DOMAIN with_defaults \ removed |-> with_defaults[k]]
    IN Rewritten(serialize_row(ProjectFields(kept, columns), fm.body, columns))

\* Iterator::filter
RECURSIVE FilterCols(_, _)
FilterCols(columns, ids) ==
    IF Len(columns) = 0 THEN <<>>
    ELSE IF columns[1].id \in ids THEN FilterCols(Tail(columns), ids)
    ELSE <<columns[1]>> \o FilterCols(Tail(columns), ids)

\* the submitted counter, stored whatever the old one is
stored_next_row_id_as_submitted(submitted, old) == submitted

\* update_schema's choice of the counter to store: the old one when the
\* submitted one is 1 and the old one is ahead, else the submitted one
stored_next_row_id(submitted, old) ==
    IF submitted = 1 /\ old > 1 THEN old ELSE submitted

\* update_schema
update_schema(sf, files, new_schema) ==
    IF ~load_schema_ok(sf) THEN Fail(sf, files, "schema")
    ELSE LET schema == [new_schema EXCEPT
                           !.next_row_id = stored_next_row_id(new_schema.next_row_id, sf.next_row_id)]
             old_col_ids == ColumnIds(sf.columns)
             new_col_ids == ColumnIds(schema.columns)
             added == FilterCols(schema.columns, old_col_ids)
             removed == old_col_ids \ new_col_ids
             rewrite(content) == update_schema_row(content, schema.columns, added, removed)
             sweep == IF added # <<>> \/ removed # {} THEN Sweep(files, rewrite)
                      ELSE [ok |-> TRUE, files |-> files]
         IN Result(schema, sweep.files, TRUE, "", None)

\* A migration whose write of the fail_at-th listed row file fails
\* ("Failed to update row"): the schema document has been saved, the files
\* listed before that one have been rewritten as in the whole run, the file
\* itself and the ones after it are as they were.  A failing write leaves
\* the file it was for as it was.  Where the loop has no write for that file
\* (written lacks it) the run is the whole one.
Interrupted(whole, files, fail_at, written) ==
    LET order == list_row_files(files)
    IN IF fail_at > Len(order) THEN whole
       ELSE IF order[fail_at] \notin written THEN whole
       ELSE Fail(whole.schema_file,
                 [s \in DOMAIN files |->
                     IF StemIndex(order, s) < fail_at THEN whole.row_files[s] ELSE files[s]],
                 "Failed to update row")

\* the row files that parse under the columns: the ones add_column and
\* remove_column write
Parsed(files, columns) == {s \in DOMAIN files : parse_row(files[s], columns).ok}

\* the row files listed before the first whose header does not parse: the
\* ones rename_column writes
BeforeFirstMalformed(files) ==
    LET order == list_row_files(files)
    IN {s \in DOMAIN files :
           \A i \in 1..StemIndex(order, s) : YamlIsMap(split_frontmatter(files[order[i]]).yaml)}

\* the interrupted run with the schema document written last
add_column_interrupted_schema_last(sf, files, column, fail_at) ==
    [Interrupted(add_column(sf, files, column), files, fail_at,
                 IF load_schema_ok(sf) /\ column.id \notin ColumnIds(sf.columns)
                 THEN Parsed(files, sf.columns) ELSE {})
        EXCEPT !.schema_file = sf]

\* add_column, the write of row file number fail_at failing
add_column_interrupted(sf, files, column, fail_at) ==
    Interrupted(add_column(sf, files, column), files, fail_at,
                IF load_schema_ok(sf) /\ column.id \notin ColumnIds(sf.columns)
                THEN Parsed(files, sf.columns) ELSE {})

\* remove_column, the write of row file number fail_at failing
remove_column_interrupted(sf, files, column_id, fail_at) ==
    Interrupted(remove_column(sf, files, column_id), files, fail_at,
                IF load_schema_ok(sf) /\ column_id \in ColumnIds(sf.columns)
                THEN Parsed(files, sf.columns) ELSE {})

\* rename_column, the write of row file number fail_at failing
rename_column_interrupted(sf, files, old_column_id, new_column_id, new_name, fail_at) ==
    Interrupted(rename_column(sf, files, old_column_id, new_column_id, new_name), files, fail_at,
                IF /\ load_schema_ok(sf)
                   /\ old_column_id \in ColumnIds(sf.columns)
                   /\ (old_column_id = new_column_id \/ new_column_id \notin ColumnIds(sf.columns))
                THEN BeforeFirstMalformed(files) ELSE {})

\* update_schema, the write of row file number fail_at failing
update_schema_interrupted(sf, files, new_schema, fail_at) ==
    Interrupted(update_schema(sf, files, new_schema), files, fail_at,
                IF load_schema_ok(sf) /\ ColumnIds(sf.columns) # ColumnIds(new_schema.columns)
                THEN DOMAIN files ELSE {})

\* ------------------------------------------------------------------------
\* Row templates
\* ------------------------------------------------------------------------

\* text[from..] starts with pattern
MatchesAt(text, from, pattern) ==
    /\ from + Len(pattern) - 1 <= Len(text)
    /\ \A i \in 1..Len(pattern) : text[from + i - 1] = pattern[i]

\* str::replace: every non-overlapping occurrence of a non-empty pattern,
\* leftmost first, is replaced
RECURSIVE replace(_, _, _)
replace(text, pattern, to) ==
    IF Len(text) = 0 THEN <<>>
    ELSE IF MatchesAt(text, 1, pattern) THEN to \o replace(SubSeq(text, Len(pattern) + 1, Len(text)), pattern, to)
    ELSE <<text[1]>> \o replace(Tail(text), pattern, to)

\* format!("{{{{{}}}}}", key)
Placeholder(key) == <<"{", "{">> \o key \o <<"}", "}">>

\* the end of the match of \{\{[^}]+\}\} that starts at from, or 0: two
\* opening braces, the longest run of characters other than "}", which must
\* not be empty, and two closing braces
UnresolvedEnd(text, from) ==
    IF ~MatchesAt(text, from, <<"{", "{">>) THEN 0
    ELSE LET stops == {j \in (from + 2)..Len(text) : text[j] = "}"}
         IN IF stops = {} THEN 0
            ELSE LET stop == CHOOSE j \in stops : \A k \in stops : j <= k
                 IN IF stop > from + 2 /\ MatchesAt(text, stop, <<"}", "}">>) THEN stop + 1 ELSE 0

\* Regex::replace_all(text, ""): the matches are found from left to right,
\* each search starting where the match before it ended
RECURSIVE remove_unresolved_from(_, _)
remove_unresolved_from(text, from) ==
    IF from > Len(text) THEN <<>>
    ELSE IF UnresolvedEnd(text, from) # 0 THEN remove_unresolved_from(text, UnresolvedEnd(text, from) + 1)
    ELSE <<text[from]>> \o remove_unresolved_from(text, from + 1)

remove_unresolved(text) == remove_unresolved_from(text, 1)

\* the date of the call in the form %Y-%m-%d
Today == <<"2", "0", "2", "6", "-", "1", "1", "-", "0", "4">>

\* the "for (key, value) in variables" loop, the keys coming in the order
\* the map yields them
RECURSIVE replace_variables(_, _, _)
replace_variables(text, variables, order) ==
    IF Len(order) = 0 THEN text
    ELSE replace_variables(replace(text, Placeholder(order[1]), variables[order[1]]), variables, Tail(order))

\* substitute_variables; order is the iteration order of the variables map
substitute_variables(template_str, variables, order) ==
    remove_unresolved(
        replace_variables(replace(template_str, Placeholder(<<"d", "a", "t", "e">>), Today), variables, order))

\* the orders in which a map can yield its keys
IterationOrders(map) ==
    {order \in [1..Cardinality(DOMAIN map) -> DOMAIN map] :
        \A i, j \in 1..Cardinality(DOMAIN map) : order[i] = order[j] => i = j}

\* RowTemplate
RowTemplate(name, title, fields, body) == [name |-> name, title |-> title, fields |-> fields, body |-> body]

\* the positions of the columns that satisfy a test, and the least of them
\* (Iterator::find)
FirstOf(positions) == CHOOSE i \in positions : \A j \in positions : i <= j

\* the first Text column, whatever the columns are called
text_column_only(columns) ==
    LET texts == {i \in 1..Len(columns) : columns[i].col_type = "text"}
    IN IF texts # {} THEN Some(columns[FirstOf(texts)].id) ELSE None

\* the column the title pattern goes to: the first column with the id
\* "title", or else the first Text column
title_column(columns) ==
    LET titled == {i \in 1..Len(columns) : columns[i].id = "title"}
        texts == {i \in 1..Len(columns) : columns[i].col_type = "text"}
    IN IF titled # {} THEN Some(columns[FirstOf(titled)].id)
       ELSE IF texts # {} THEN Some(columns[FirstOf(texts)].id)
       ELSE None

\* the fields of the template, the string values substituted
template_fields(template, variables, order) ==
    [k \in DOMAIN template.fields |->
        IF template.fields[k].t = "str"
        THEN JStr(substitute_variables(template.fields[k].s, variables, order))
        ELSE template.fields[k]]

\* the title pattern inserted into the title column, if both are there
with_title(fields, template, columns, variables, order) ==
    IF IsSome(template.title) /\ IsSome(title_column(columns))
    THEN MergeFields(fields, [k \in {Unwrap(title_column(columns))} |->
                                 JStr(substitute_variables(Unwrap(template.title), variables, order))])
    ELSE fields

\* the type default for every column that has no field yet
with_defaults(fields, columns) ==
    [k \in DOMAIN fields \cup ColumnIds(columns) |->
        IF k \in DOMAIN fields THEN fields[k]
        ELSE default_json_value(columns[FirstOf({i \in 1..Len(columns) : columns[i].id = k})].col_type)]

\* the row a template gives under a schema
template_row(template, columns, variables, order) ==
    [fields |-> with_defaults(with_title(template_fields(template, variables, order),
                                         template, columns, variables, order),
                              columns),
     body |-> IF IsSome(template.body) THEN substitute_variables(Unwrap(template.body), variables, order)
              ELSE <<>>]

\* the row file written for a row, and the result that returns the row
write_template_row(alloc, files, row) ==
    [schema_file |-> alloc.schema,
     row_files |-> WriteFile(files, alloc.name, serialize_row(row.fields, row.body, alloc.schema.columns)),
     ok |-> TRUE, err |-> "", id |-> Some(alloc.name),
     row |-> [id |-> alloc.name, fields |-> row.fields, body |-> row.body]]

\* create_row_from_template that takes the row id before it looks for the
\* template
create_row_from_template_allocating_first(sf, files, template_name, variables, order) ==
    IF ~is_database_folder(sf) THEN Fail(sf, files, "is not a database folder")
    ELSE IF ~load_schema_ok(sf) THEN Fail(sf, files, "schema")
    ELSE IF template_name \notin DOMAIN sf.templates
         THEN Fail(next_row_filename(sf).schema, files, "Template not found")
    ELSE write_template_row(next_row_filename(sf), files,
                   template_row(sf.templates[template_name], sf.columns, variables, order))

\* create_row_from_template
create_row_from_template(sf, files, template_name, variables, order) ==
    IF ~is_database_folder(sf) THEN Fail(sf, files, "is not a database folder")
    ELSE IF ~load_schema_ok(sf) THEN Fail(sf, files, "schema")
    ELSE IF template_name \notin DOMAIN sf.templates THEN Fail(sf, files, "Template not found")
    ELSE write_template_row(next_row_filename(sf), files,
                   template_row(sf.templates[template_name], sf.columns, variables, order))

\* ------------------------------------------------------------------------
\* Query engine (db_query_impl)
\* ------------------------------------------------------------------------

\* str::to_lowercase on the model's alphabet
UpperChars == <<"A", "B", "C", "D", "E", "F", "G", "H", "I", "J", "K", "L", "M",
                "N", "O", "P", "Q", "R", "S", "T", "U", "V", "W", "X", "Y", "Z">>

LowerChars == <<"a", "b", "c", "d", "e", "f", "g", "h", "i", "j", "k", "l", "m",
                "n", "o", "p", "q", "r", "s", "t", "u", "v", "w", "x", "y", "z">>

to_lowercase(text) ==
    [i \in 1..Len(text) |->
        IF \E u \in 1..Len(UpperChars) : UpperChars[u] = text[i]
        THEN LowerChars[CHOOSE u \in 1..Len(UpperChars) : UpperChars[u] = text[i]]
        ELSE text[i]]

\* str::starts_with, str::ends_with, str::contains
starts_with(text, prefix) ==
    Len(prefix) <= Len(text) /\ SubSeq(text, 1, Len(prefix)) = prefix

ends_with(text, suffix) ==
    Len(suffix) <= Len(text) /\ SubSeq(text, Len(text) - Len(suffix) + 1, Len(text)) = suffix

contains(text, needle) ==
    \E i \in 1..(Len(text) - Len(needle) + 1) : SubSeq(text, i, i + Len(needle) - 1) = needle

\* Ord::cmp on strings: -1 for Less, 0 for Equal, 1 for Greater
StrCmp(a, b) == IF a = b THEN 0 ELSE IF LexLess(a, b) THEN 0 - 1 ELSE 1

IntCmp(a, b) == IF a = b THEN 0 ELSE IF a < b THEN 0 - 1 ELSE 1

\* the predicate a filter operator hands to compare_values
OrderingHolds(operator, a, b) ==
    CASE operator = "gt" -> a > b
      [] operator = "gte" -> a >= b
      [] operator = "lt" -> a < b
      [] operator = "lte" -> a <= b

\* compare_values that takes every value for a string
compare_values_as_strings(row_val, filter_val, operator) ==
    IF IsSome(row_val) /\ IsSome(filter_val)
    THEN OrderingHolds(operator, StrCmp(as_str_or_empty(Unwrap(row_val)), as_str_or_empty(Unwrap(filter_val))), 0)
    ELSE FALSE

\* compare_values (row_val and filter_val are Options)
compare_values(row_val, filter_val, operator) ==
    IF IsSome(row_val) /\ IsSome(filter_val)
    THEN LET rv == Unwrap(row_val)
             fv == Unwrap(filter_val)
         IN IF rv.t = "num" /\ fv.t = "num" THEN OrderingHolds(operator, rv.n, fv.n)
            ELSE OrderingHolds(operator, StrCmp(as_str_or_empty(rv), as_str_or_empty(fv)), 0)
    ELSE FALSE

\* compare_json_values: the ordering of two optional values for the sort
compare_json_values(a, b) ==
    IF ~IsSome(a) /\ ~IsSome(b) THEN 0
    ELSE IF ~IsSome(a) THEN 0 - 1
    ELSE IF ~IsSome(b) THEN 1
    ELSE LET va == Unwrap(a)
             vb == Unwrap(b)
         IN IF va.t = "num" /\ vb.t = "num" THEN IntCmp(va.n, vb.n)
            ELSE IF va.t = "bool" /\ vb.t = "bool"
                 THEN IntCmp(IF va.b THEN 1 ELSE 0, IF vb.b THEN 1 ELSE 0)
            ELSE StrCmp(as_str_or_empty(va), as_str_or_empty(vb))

\* compute_etag: the 64-bit digest of the file's bytes, taken to be free of
\* collisions (two contents have the same ETag only if they are equal)
compute_etag(content) == [digest_of |-> content]

\* an ETag taken from the header of the row file alone
row_etag_of_header(files, row_id) == compute_etag([yaml |-> files[row_id].yaml, rest |-> <<>>])

\* the ETag a query gives for a row: the digest of the row file as it is read
\* again after the load
row_etag(files, row_id) == compute_etag(files[row_id])

\* load_rows: the rows of the files that parse, in the order of the listing
RECURSIVE load_rows_from(_, _, _)
load_rows_from(order, files, columns) ==
    IF Len(order) = 0 THEN <<>>
    ELSE LET row == parse_row(files[order[1]], columns)
             rest == load_rows_from(Tail(order), files, columns)
         IN IF row.ok THEN <<[id |-> order[1], fields |-> row.fields, body |-> row.body]>> \o rest
            ELSE rest

\* a load that gives up on the first row file that does not parse
load_rows_all_or_nothing(files, columns) ==
    IF \E s \in DOMAIN files : ~parse_row(files[s], columns).ok THEN <<>>
    ELSE load_rows_from(list_row_files(files), files, columns)

\* load_rows: the rows of the listed files that parse, in listing order
load_rows(files, columns) == load_rows_from(list_row_files(files), files, columns)

\* get_database: the schema and the rows
get_database(sf, files) ==
    IF ~is_database_folder(sf) THEN [ok |-> FALSE, err |-> "is not a database folder", rows |-> <<>>]
    ELSE IF ~load_schema_ok(sf) THEN [ok |-> FALSE, err |-> "schema", rows |-> <<>>]
    ELSE [ok |-> TRUE, err |-> "", rows |-> load_rows(files, sf.columns)]

\* a filter clause {field, operator, value}; the value may be absent
Filter(field, operator, value) == [field |-> field, operator |-> operator, value |-> value]

\* the needle of contains, starts_with, ...: the value as a lower-case string
Needle(value) == to_lowercase(IF IsSome(value) THEN as_str_or_empty(Unwrap(value)) ELSE <<>>)

\* a "contains" that looks into strings only
field_contains_in_strings_only(row, filter) ==
    /\ filter.field \in DOMAIN row.fields
    /\ row.fields[filter.field].t = "str"
    /\ contains(to_lowercase(row.fields[filter.field].s), Needle(filter.value))

\* the closure of the "contains" clause
field_contains(row, filter) ==
    LET rv == row.fields[filter.field]
    IN IF filter.field \notin DOMAIN row.fields THEN FALSE
       ELSE IF rv.t = "str" THEN contains(to_lowercase(rv.s), Needle(filter.value))
       ELSE IF rv.t = "arr"
            THEN \E i \in 1..Len(rv.a) : rv.a[i].t = "str" /\ to_lowercase(rv.a[i].s) = Needle(filter.value)
       ELSE FALSE

\* the closure of rows.retain: does the row pass the clause
filter_matches(row, filter) ==
    LET present == filter.field \in DOMAIN row.fields
        row_val == IF present THEN Some(row.fields[filter.field]) ELSE None
        rv == row.fields[filter.field]
        value == filter.value
        operator == filter.operator
        item_is_needle == \E i \in 1..Len(rv.a) : rv.a[i].t = "str" /\ to_lowercase(rv.a[i].s) = Needle(value)
    IN CASE operator = "eq" ->
                IF present /\ IsSome(value) THEN rv = Unwrap(value)
                ELSE ~present /\ ~IsSome(value)
         [] operator = "neq" ->
                IF present /\ IsSome(value) THEN rv # Unwrap(value)
                ELSE ~(~present /\ ~IsSome(value))
         [] operator \in {"gt", "gte", "lt", "lte"} -> compare_values(row_val, value, operator)
         [] operator = "contains" -> field_contains(row, filter)
         [] operator = "not_contains" ->
                IF ~present THEN TRUE
                ELSE IF rv.t = "str" THEN ~contains(to_lowercase(rv.s), Needle(value))
                ELSE IF rv.t = "arr" THEN ~item_is_needle
                ELSE TRUE
         [] operator = "starts_with" ->
                present /\ rv.t = "str" /\ starts_with(to_lowercase(rv.s), Needle(value))
         [] operator = "ends_with" ->
                present /\ rv.t = "str" /\ ends_with(to_lowercase(rv.s), Needle(value))
         [] operator = "is_empty" ->
                IF ~present THEN TRUE
                ELSE IF rv.t = "str" THEN rv.s = <<>>
                ELSE IF rv.t = "arr" THEN rv.a = <<>>
                ELSE rv.t = "null"
         [] operator = "is_not_empty" ->
                IF ~present THEN FALSE
                ELSE IF rv.t = "str" THEN rv.s # <<>>
                ELSE IF rv.t = "arr" THEN rv.a # <<>>
                ELSE rv.t # "null"
         [] OTHER -> TRUE

\* Vec::retain
RECURSIVE RetainRows(_, _)
RetainRows(rows, filter) ==
    IF Len(rows) = 0 THEN <<>>
    ELSE IF filter_matches(rows[1], filter) THEN <<rows[1]>> \o RetainRows(Tail(rows), filter)
    ELSE RetainRows(Tail(rows), filter)

\* the rows that pass any of the clauses
RECURSIVE apply_filters_any(_, _)
apply_filters_any(rows, filters) ==
    IF Len(rows) = 0 THEN <<>>
    ELSE IF filters = <<>> \/ \E f \in 1..Len(filters) : filter_matches(rows[1], filters[f])
    THEN <<rows[1]>> \o apply_filters_any(Tail(rows), filters)
    ELSE apply_filters_any(Tail(rows), filters)

\* the "for filter in filter_arr" loop: one retain per clause
RECURSIVE apply_filters(_, _)
apply_filters(rows, filters) ==
    IF Len(filters) = 0 THEN rows
    ELSE apply_filters(RetainRows(rows, filters[1]), Tail(filters))

\* a sort argument {field, direction}
Sort(field, direction) == [field |-> field, direction |-> direction]

\* the comparator without the direction
row_ordering_ascending(a, b, sort) ==
    compare_json_values(IF sort.field \in DOMAIN a.fields THEN Some(a.fields[sort.field]) ELSE None,
                        IF sort.field \in DOMAIN b.fields THEN Some(b.fields[sort.field]) ELSE None)

\* the comparator of rows.sort_by
row_ordering(a, b, sort) ==
    LET va == IF sort.field \in DOMAIN a.fields THEN Some(a.fields[sort.field]) ELSE None
        vb == IF sort.field \in DOMAIN b.fields THEN Some(b.fields[sort.field]) ELSE None
        ord == compare_json_values(va, vb)
    IN IF sort.direction = "desc" THEN 0 - ord ELSE ord

\* slice::sort_by, a stable sort: a row goes after the rows placed so far
\* that are not greater than it
RECURSIVE InsertSorted(_, _, _)
InsertSorted(sorted, row, sort) ==
    IF Len(sorted) = 0 THEN <<row>>
    ELSE IF row_ordering(row, sorted[1], sort) < 0 THEN <<row>> \o sorted
    ELSE <<sorted[1]>> \o InsertSorted(Tail(sorted), row, sort)

RECURSIVE sort_by(_, _)
sort_by(rows, sort) ==
    IF Len(rows) = 0 THEN <<>>
    ELSE InsertSorted(sort_by(SubSeq(rows, 1, Len(rows) - 1), sort), rows[Len(rows)], sort)

apply_sort(rows, sort) ==
    IF IsSome(sort) /\ Unwrap(sort).field # "" THEN sort_by(rows, Unwrap(sort)) ELSE rows

\* the page without the skip of the offset
paginate_no_skip(rows, offset, limit) ==
    SubSeq(rows, 1, IF limit < Len(rows) THEN limit ELSE Len(rows))

\* rows.into_iter().skip(offset).take(limit)
paginate(rows, offset, limit) ==
    LET skipped == SubSeq(rows, offset + 1, Len(rows))
    IN SubSeq(skipped, 1, IF limit < Len(skipped) THEN limit ELSE Len(skipped))

\* db_query_impl
db_query_impl(sf, files, filters, sort, limit, offset) ==
    IF ~is_database_folder(sf) THEN [ok |-> FALSE, err |-> "is not a database folder"]
    ELSE IF ~load_schema_ok(sf) THEN [ok |-> FALSE, err |-> "schema"]
    ELSE LET rows == load_rows(files, sf.columns)
             filtered == apply_filters(rows, IF IsSome(filters) THEN Unwrap(filters) ELSE <<>>)
             sorted == apply_sort(filtered, sort)
             page == paginate(sorted, offset, limit)
         IN [ok |-> TRUE, err |-> "", total |-> Len(sorted), offset |-> offset, limit |-> limit,
             rows |-> [i \in 1..Len(page) |->
                          [id |-> page[i].id, fields |-> page[i].fields, body |-> page[i].body,
                           etag |-> row_etag(files, page[i].id)]]]

\* ------------------------------------------------------------------------
\* slugify
\* ------------------------------------------------------------------------

\* Letters outside ASCII; a character that the module's strings cannot
\* hold is written as its code point: U+00C9 is the capital E with acute,
\* U+00E9 the small one
UpperLettersBeyondAscii == {"U+00C9"}

LowerLettersBeyondAscii == {"U+00E9"}

InSeq(c, chars) == \E i \in 1..Len(chars) : chars[i] = c

\* char::is_alphanumeric: the letters and digits of Unicode
is_alphanumeric(c) ==
    \/ InSeq(c, UpperChars) \/ InSeq(c, LowerChars) \/ InSeq(c, DigitChars)
    \/ c \in UpperLettersBeyondAscii \cup LowerLettersBeyondAscii

\* char::to_ascii_lowercase: A-Z to a-z, every other character unchanged
to_ascii_lowercase(c) ==
    IF InSeq(c, UpperChars) THEN LowerChars[CHOOSE u \in 1..Len(UpperChars) : UpperChars[u] = c] ELSE c

\* the loop of slugify: slug so far, last_was_dash, the characters left
RECURSIVE slugify_from(_, _, _)
slugify_from(slug, last_was_dash, rest) ==
    IF Len(rest) = 0 THEN slug
    ELSE IF is_alphanumeric(rest[1]) THEN slugify_from(Append(slug, to_ascii_lowercase(rest[1])), FALSE, Tail(rest))
    ELSE IF ~last_was_dash /\ slug # <<>> THEN slugify_from(Append(slug, "-"), TRUE, Tail(rest))
    ELSE slugify_from(slug, last_was_dash, Tail(rest))

\* str::trim_end_matches('-')
RECURSIVE trim_end_dashes(_)
trim_end_dashes(text) ==
    IF Len(text) > 0 /\ text[Len(text)] = "-" THEN trim_end_dashes(SubSeq(text, 1, Len(text) - 1)) ELSE text

\* slugify
slugify(name) == trim_end_dashes(slugify_from(<<>>, FALSE, name))

\* ------------------------------------------------------------------------
\* The calls of a single caller, one after another
\* ------------------------------------------------------------------------

ColTitle == Col("title", "Title", "text", None, None)

ColStatus == Col("status", "Status", "select", Some(<<"Todo", "Done">>), None)

ColPriority == Col("priority", "Priority", "number", None, None)

ColDone == Col("done", "Done", "checkbox", None, None)

ColTags == Col("tags", "Tags", "multi-select", Some(<<"k", "1">>), None)

\* a second definition of the id "title"
ColTitleNumber == Col("title", "Count", "number", None, None)

\* a select column submitted without options
ColKind == Col("kind", "Kind", "select", None, None)

BoardView == View("board", "board", Some("status"), Some(<<"title", "status">>), Some("status"), Some(TRUE))

\* the arguments the callers pass
CreateColumns == {<<ColTitle, ColStatus>>, <<ColTitle, ColTitleNumber>>}

CreateViews == {None}

AddColumns == {ColPriority, ColStatus, ColKind}

ColumnIdArgs == {"title", "status", "kind"}

NewColumnIdArgs == {"state", "title"}

NewNameArgs == {None, Some("State")}

NewSchemas ==
    {Schema(columns, <<BoardView>>, n) :
        columns \in {<<ColTitle, ColPriority>>, <<ColStatus, ColStatus>>, <<ColStatus, ColTitle>>},
        n \in {1, 2}}

FieldArgs ==
    {<<>>,
     [k \in {"title"} |-> JStr(<<"\\", "\\">>)],
     [k \in {"title", "status"} |-> IF k = "title" THEN JStr(<<"k">>) ELSE JStr(<<"D">>)]}

BodyArgs == {None, Some(<<"b">>)}

RowIdArgs == {row_name(1), row_name(2)}

Idle == [stage |-> "idle"]

NoCall == [op |-> "none", args |-> <<>>, ok |-> TRUE, err |-> "", id |-> None]

Callers == {"A", "B"}

NoCallers == [c \in Callers |-> [pc |-> "idle"]]

Init ==
    /\ schema_file = NoFile
    /\ row_files = <<>>
    /\ returned = <<>>
    /\ last = NoCall
    /\ calls = 0
    /\ codec = Idle
    /\ callers = NoCallers
    /\ edits = 0
    /\ gaps = {}

\* a call and its result (the arguments of a call that failed before it
\* wrote anything are not recorded)
Call(op, args, r) ==
    /\ calls < MaxCalls
    /\ calls' = calls + 1
    /\ schema_file' = r.schema_file
    /\ row_files' = r.row_files
    /\ last' = [op |-> op,
                args |-> IF r.ok \/ r.err \in {"Failed to update row", "Row file"} THEN args ELSE <<>>,
                ok |-> r.ok, err |-> r.err, id |-> r.id]
    /\ returned' = IF op = "create_row" /\ r.ok THEN Append(returned, Unwrap(r.id)) ELSE returned
    /\ gaps' = IF op = "create_row" /\ r.err = "Failed to write row file"
                THEN gaps \cup {row_name(schema_file.next_row_id)}
                ELSE gaps
    /\ UNCHANGED <<codec, callers, edits>>

CreateDatabase ==
    \E columns \in CreateColumns, views \in CreateViews :
        Call("create_database", [columns |-> columns, views |-> views],
             create_database(schema_file, row_files, columns, views))

CreateRow ==
    \E fields \in FieldArgs, body \in BodyArgs :
        Call("create_row", [fields |-> fields, body |-> body],
             create_row(schema_file, row_files, fields, body))

\* a create_row whose row write fails
CreateRowWriteFails ==
    Call("create_row", <<>>, create_row_write_fails(schema_file, row_files))

UpdateRow ==
    \E row_id \in RowIdArgs, fields \in FieldArgs, body \in BodyArgs :
        Call("update_row", [row_id |-> row_id, fields |-> fields, body |-> body],
             update_row(schema_file, row_files, row_id, fields, body))

DeleteRow ==
    \E row_id \in RowIdArgs :
        Call("delete_row", [row_id |-> row_id], delete_row(schema_file, row_files, row_id))

AddColumn ==
    \E column \in AddColumns :
        Call("add_column", [column |-> column], add_column(schema_file, row_files, column))

RemoveColumn ==
    \E column_id \in ColumnIdArgs :
        Call("remove_column", [column_id |-> column_id], remove_column(schema_file, row_files, column_id))

RenameColumn ==
    \E old_column_id \in ColumnIdArgs, new_column_id \in NewColumnIdArgs, new_name \in NewNameArgs :
        Call("rename_column",
             [old_column_id |-> old_column_id, new_column_id |-> new_column_id, new_name |-> new_name],
             rename_column(schema_file, row_files, old_column_id, new_column_id, new_name))

UpdateSchema ==
    \E new_schema \in NewSchemas :
        Call("update_schema", [new_schema |-> new_schema], update_schema(schema_file, row_files, new_schema))

Next ==
    \/ CreateDatabase
    \/ CreateRow
    \/ CreateRowWriteFails
    \/ UpdateRow
    \/ DeleteRow
    \/ AddColumn
    \/ RemoveColumn
    \/ RenameColumn
    \/ UpdateSchema

Spec == Init /\ [][Next]_vars

\* the calls that touch rows only
NextRows ==
    \/ CreateDatabase
    \/ CreateRow
    \/ CreateRowWriteFails
    \/ UpdateRow
    \/ DeleteRow

SpecRows == Init /\ [][NextRows]_vars

\* ------------------------------------------------------------------------
\* Migrations of a database that holds two rows, a write of a row file
\* failing in some of them
\* ------------------------------------------------------------------------

\* which of the listed row files the failing write is for
FailAtArgs == {1, 2}

\* create_row on the folder a call left
CreateRowAfter(r, fields) == create_row(r.schema_file, r.row_files, fields, None)

\* update_row of the first row on the folder a call left, no field changed
TouchFirstRowAfter(r) == update_row(r.schema_file, r.row_files, row_name(1), <<>>, None)

\* the folder in which the migrations start, made by that many calls
StartOfMigrations(r, made) ==
    /\ schema_file = r.schema_file
    /\ row_files = r.row_files
    /\ returned = <<row_name(1), row_name(2)>>
    /\ last = NoCall
    /\ calls = made
    /\ codec = Idle
    /\ callers = NoCallers
    /\ edits = 0
    /\ gaps = {}

\* the folder after create_database, two create_row calls and, in some
\* runs, an update_row of the first row
InitMigrate ==
    \E first \in FieldArgs, touched \in BOOLEAN :
        StartOfMigrations(
            IF touched
            THEN TouchFirstRowAfter(CreateRowAfter(CreateRowAfter(
                     create_database(NoFile, <<>>, <<ColTitle, ColStatus>>, Some(<<BoardView>>)), first), <<>>))
            ELSE CreateRowAfter(CreateRowAfter(
                     create_database(NoFile, <<>>, <<ColTitle, ColStatus>>, Some(<<BoardView>>)), first), <<>>),
            IF touched THEN 4 ELSE 3)

\* a call that ends with "Failed to update row"
InterruptedCall(op, args, r) == r.err = "Failed to update row" /\ Call(op, args, r)

AddColumnInterrupted ==
    \E column \in AddColumns, fail_at \in FailAtArgs :
        InterruptedCall("add_column", [column |-> column],
                        add_column_interrupted(schema_file, row_files, column, fail_at))

RemoveColumnInterrupted ==
    \E column_id \in ColumnIdArgs, fail_at \in FailAtArgs :
        InterruptedCall("remove_column", [column_id |-> column_id],
                        remove_column_interrupted(schema_file, row_files, column_id, fail_at))

RenameColumnInterrupted ==
    \E old_column_id \in ColumnIdArgs, new_column_id \in NewColumnIdArgs, new_name \in NewNameArgs,
       fail_at \in FailAtArgs :
        InterruptedCall("rename_column",
                        [old_column_id |-> old_column_id, new_column_id |-> new_column_id, new_name |-> new_name],
                        rename_column_interrupted(schema_file, row_files, old_column_id, new_column_id,
                                                  new_name, fail_at))

UpdateSchemaInterrupted ==
    \E new_schema \in NewSchemas, fail_at \in FailAtArgs :
        InterruptedCall("update_schema", [new_schema |-> new_schema],
                        update_schema_interrupted(schema_file, row_files, new_schema, fail_at))

NextMigrate ==
    \/ AddColumn
    \/ RemoveColumn
    \/ RenameColumn
    \/ UpdateSchema
    \/ AddColumnInterrupted
    \/ RemoveColumnInterrupted
    \/ RenameColumnInterrupted
    \/ UpdateSchemaInterrupted

SpecMigrate == InitMigrate /\ [][NextMigrate]_vars

\* ------------------------------------------------------------------------
\* Variable substitution on its own
\* ------------------------------------------------------------------------

\* a template text is made of at most this many pieces
MaxPieces == 5

TemplatePieces ==
    {<<"{", "{">>, <<"}">>, <<"a">>, Placeholder(<<"b">>), Placeholder(<<"d", "a", "t", "e">>)}

RECURSIVE Concat(_)
Concat(pieces) == IF Len(pieces) = 0 THEN <<>> ELSE pieces[1] \o Concat(Tail(pieces))

TemplateTexts == {Concat(pieces) : pieces \in UNION {[1..n -> TemplatePieces] : n \in 0..MaxPieces}}

\* the variables of the caller: none, one, or two of which the first's
\* value names the second
VariableArgs ==
    {<<>>,
     <<"b">> :> <<"x">>,
     (<<"a">> :> Placeholder(<<"b">>)) @@ (<<"b">> :> <<"x">>)}

InitSubstitute ==
    /\ schema_file = NoFile
    /\ row_files = <<>>
    /\ returned = <<>>
    /\ last = NoCall
    /\ calls = 0
    /\ callers = NoCallers
    /\ edits = 0
    /\ gaps = {}
    /\ \E template_str \in TemplateTexts, variables \in VariableArgs :
          codec = [stage |-> "template", template_str |-> template_str, variables |-> variables]

SubstituteVariables ==
    /\ codec.stage = "template"
    /\ \E order \in IterationOrders(codec.variables) :
          codec' = [stage |-> "substituted", template_str |-> codec.template_str,
                    variables |-> codec.variables,
                    result |-> substitute_variables(codec.template_str, codec.variables, order)]
    /\ UNCHANGED <<schema_file, row_files, returned, last, calls, callers, edits, gaps>>

NextSubstitute == SubstituteVariables

SpecSubstitute == InitSubstitute /\ [][NextSubstitute]_vars

\* a placeholder {{name}}, the name not empty and without "}", is in the text
HoldsPlaceholder(text) == \E i \in 1..Len(text) : UnresolvedEnd(text, i) # 0

\* C24: the output of substitute_variables holds no {{...}} placeholder
OutputHoldsNoPlaceholder ==
    codec.stage = "substituted" => ~HoldsPlaceholder(codec.result)

\* ------------------------------------------------------------------------
\* Rows created from the templates of a schema
\* ------------------------------------------------------------------------

ColName == Col("name", "Name", "text", None, None)

\* the columns of the database: "title" first, no "title" but a Text column
\* after a number, a "title" that is a number after a Text column, no Text
\* column at all
TemplateColumns ==
    {<<ColTitle, ColStatus>>, <<ColPriority, ColName, ColStatus>>, <<ColName, ColTitleNumber>>,
     <<ColPriority, ColDone>>}

TitleKey == <<"t", "i", "t", "l", "e">>

\* the templates of the schema, by name
RowTemplates ==
    ("task" :> RowTemplate("Task", Some(Placeholder(TitleKey)),
                           [k \in {"status"} |-> JStr(<<"T", "o", "d", "o">>)],
                           Some(Placeholder(<<"d", "a", "t", "e">>))))
    @@ ("bare" :> RowTemplate("Bare", None,
                              [k \in {"priority", "status", "extra"} |->
                                  CASE k = "priority" -> JNum(1)
                                    [] k = "status" -> JStr(Placeholder(<<"b">>))
                                    [] OTHER -> JStr(<<"k">>)],
                              None))
    @@ ("fixed" :> RowTemplate("Fixed", Some(<<"k">>),
                               [k \in {"title"} |-> JStr(<<"m">>)],
                               Some(<<"a">> \o Placeholder(<<"b">>))))

TemplateNameArgs == {"task", "bare", "fixed", "missing"}

TemplateVariableArgs ==
    {<<>>,
     TitleKey :> <<"x">>,
     (TitleKey :> <<"x">>) @@ (<<"b">> :> <<"y">>)}

\* the schema of the database with the templates in it
SchemaWithTemplates(sf) == [sf EXCEPT !.templates = RowTemplates]

\* the folder after create_database and the update_schema that brought the
\* templates
InitTemplate ==
    /\ \E columns \in TemplateColumns :
          LET db == create_database(NoFile, <<>>, columns, None)
              with == update_schema(db.schema_file, db.row_files, SchemaWithTemplates(db.schema_file))
          IN schema_file = with.schema_file /\ row_files = with.row_files
    /\ returned = <<>>
    /\ last = NoCall
    /\ calls = 2
    /\ codec = Idle
    /\ callers = NoCallers
    /\ edits = 0
    /\ gaps = {}

\* the call and its result, which holds the row on success
TemplateCall(template_name, variables, r) ==
    /\ calls < MaxCalls
    /\ calls' = calls + 1
    /\ schema_file' = r.schema_file
    /\ row_files' = r.row_files
    /\ last' = IF r.ok
               THEN [op |-> "create_row_from_template",
                     args |-> [template_name |-> template_name, variables |-> variables],
                     ok |-> TRUE, err |-> "", id |-> r.id, row |-> r.row]
               ELSE [op |-> "create_row_from_template",
                     args |-> [template_name |-> template_name, variables |-> variables],
                     ok |-> FALSE, err |-> r.err, id |-> None]
    /\ returned' = IF r.ok THEN Append(returned, Unwrap(r.id)) ELSE returned
    /\ UNCHANGED <<codec, callers, edits, gaps>>

CreateRowFromTemplate ==
    \E template_name \in TemplateNameArgs, variables \in TemplateVariableArgs :
        \E order \in IterationOrders(variables) :
            TemplateCall(template_name, variables,
                         create_row_from_template(schema_file, row_files, template_name, variables, order))

NextTemplate ==
    \/ CreateRowFromTemplate
    \/ CreateRow

SpecTemplate == InitTemplate /\ [][NextTemplate]_vars

\* where the claim puts the title: the column called "title", or else the
\* first column of type Text, if the template has a title pattern
TitleTarget(template, columns) ==
    IF ~IsSome(template.title) THEN {}
    ELSE IF "title" \in ColumnIds(columns) THEN {"title"}
    ELSE {columns[i].id : i \in {j \in 1..Len(columns) :
                                    /\ columns[j].col_type = "text"
                                    /\ \A h \in 1..(j - 1) : columns[h].col_type # "text"}}

MaxNameLen == 4

NameChars == {"M", "y", "1", " ", "/", "-", "U+00C9"}

NameArgs == UNION {[1..n -> NameChars] : n \in 0..MaxNameLen}

InitSlug ==
    /\ schema_file = NoFile
    /\ row_files = <<>>
    /\ returned = <<>>
    /\ last = NoCall
    /\ calls = 0
    /\ callers = NoCallers
    /\ edits = 0
    /\ gaps = {}
    /\ \E name \in NameArgs : codec = [stage |-> "name", name |-> name]

Slugify ==
    /\ codec.stage = "name"
    /\ codec' = [stage |-> "slug", name |-> codec.name, slug |-> slugify(codec.name)]
    /\ UNCHANGED <<schema_file, row_files, returned, last, calls, callers, edits, gaps>>

NextSlug == Slugify

SpecSlug == InitSlug /\ [][NextSlug]_vars

\* a lower-case letter or a digit
LowerAlphanumeric(c) == InSeq(c, LowerChars) \/ InSeq(c, DigitChars) \/ c \in LowerLettersBeyondAscii

\* the runs of characters that are not alphanumeric and stand between two
\* alphanumeric characters, by their first positions
InnerRuns(name) ==
    {i \in 2..Len(name) :
        /\ ~is_alphanumeric(name[i])
        /\ is_alphanumeric(name[i - 1])
        /\ \E j \in (i + 1)..Len(name) : is_alphanumeric(name[j])}

\* C26: slugify returns lower-case alphanumerics and single hyphens only,
\* one hyphen for every run of other characters between two alphanumeric
\* ones, and the result neither starts nor ends with a hyphen
SlugIsLowerCaseAndHyphenated ==
    codec.stage = "slug" =>
        LET slug == codec.slug
        IN /\ \A i \in 1..Len(slug) : slug[i] = "-" \/ LowerAlphanumeric(slug[i])
           /\ \A i \in 1..(Len(slug) - 1) : ~(slug[i] = "-" /\ slug[i + 1] = "-")
           /\ Len(slug) > 0 => (slug[1] # "-" /\ slug[Len(slug)] # "-")
           /\ Cardinality({i \in 1..Len(slug) : slug[i] = "-"}) = Cardinality(InnerRuns(codec.name))

\* ------------------------------------------------------------------------
\* A database whose counter is about to pass the three padded digits
\* ------------------------------------------------------------------------

\* the greatest id that "row-{:03}" writes with three digits
LastPaddedId == 999

\* the folder of a database that has handed out the ids below
\* LastPaddedId - 1, all of whose rows have been deleted since (returned
\* holds the ids handed out from here on)
InitRollover ==
    /\ schema_file = [create_database(NoFile, <<>>, <<ColTitle, ColStatus>>, None).schema_file
                         EXCEPT !.next_row_id = LastPaddedId - 1]
    /\ row_files = <<>>
    /\ returned = <<>>
    /\ last = NoCall
    /\ calls = 0
    /\ codec = Idle
    /\ callers = NoCallers
    /\ edits = 0
    /\ gaps = {}

\* delete_row of a row that is there
DeleteListedRow ==
    \E row_id \in DOMAIN row_files :
        Call("delete_row", [row_id |-> row_id], delete_row(schema_file, row_files, row_id))

\* get_database: the folder is read, nothing is written (one read at a
\* time between the calls that write)
GetDatabase ==
    /\ last.op # "get_database"
    /\ last' = [op |-> "get_database", args |-> <<>>, id |-> None] @@ get_database(schema_file, row_files)
    /\ UNCHANGED <<schema_file, row_files, returned, calls, codec, callers, edits, gaps>>

NextRollover ==
    \/ CreateRow
    \/ DeleteListedRow
    \/ GetDatabase

SpecRollover == InitRollover /\ [][NextRollover]_vars

\* the place of an id in the order of allocation
AllocationIndex(id) == CHOOSE i \in 1..Len(returned) : returned[i] = id

\* C30: get_database returns the rows in the order in which their ids were
\* allocated, however many rows were created
LoadOrderIsAllocationOrder ==
    (last.op = "get_database" /\ last.ok) =>
        \A i, j \in 1..Len(last.rows) :
            i < j => AllocationIndex(last.rows[i].id) < AllocationIndex(last.rows[j].id)

\* ------------------------------------------------------------------------
\* The row codec on its own: serialize_row, then parse_row of its output
\* ------------------------------------------------------------------------

\* the strings, numbers and lists a field of the codec check holds
TextValues == {<<>>, <<"k">>, <<"k", "\"">>, <<"\\", "\\">>, <<"\\", "k">>}

NumberValues == {0, 7, 12, 0 - 3}

OptionValues == {<<"k">>, <<"1">>}

BodyValues == {<<>>, <<"b">>, <<"\n", "b">>, <<"b", "\n">>}

\* the values that match a column type exactly
TypeValues(col_type) ==
    CASE col_type = "number" -> {JNum(n) : n \in NumberValues}
      [] col_type = "checkbox" -> {JBool(b) : b \in BOOLEAN}
      [] col_type = "multi-select" ->
            {JArr(<<>>)} \cup {JArr(<<JStr(o)>>) : o \in OptionValues}
            \cup {JArr(<<JStr(o), JStr(p)>>) : o \in OptionValues, p \in OptionValues}
      [] OTHER -> {JStr(s) : s \in TextValues}

CodecColumns ==
    LET pool == {ColTitle, ColStatus, ColPriority, ColDone, ColTags}
    IN {<<c>> : c \in pool} \cup {<<p[1], p[2]>> : p \in {q \in pool \X pool : q[1] # q[2]}}

\* the rows over the columns whose every field matches its column's type
TypedFields(columns) ==
    {f \in [ColumnIds(columns) -> UNION {TypeValues(columns[i].col_type) : i \in 1..Len(columns)}] :
        \A i \in 1..Len(columns) : f[columns[i].id] \in TypeValues(columns[i].col_type)}

InitCodec ==
    /\ schema_file = NoFile
    /\ row_files = <<>>
    /\ returned = <<>>
    /\ last = NoCall
    /\ calls = 0
    /\ callers = NoCallers
    /\ edits = 0
    /\ gaps = {}
    /\ \E columns \in CodecColumns :
          \E fields \in TypedFields(columns), body \in BodyValues :
              codec = [stage |-> "row", columns |-> columns, fields |-> fields, body |-> body]

SerializeRow ==
    /\ codec.stage = "row"
    /\ codec' = [codec EXCEPT !.stage = "serialized"] @@
                [content |-> serialize_row(codec.fields, codec.body, codec.columns)]
    /\ UNCHANGED <<schema_file, row_files, returned, last, calls, callers, edits, gaps>>

ParseRow ==
    /\ codec.stage = "serialized"
    /\ codec' = [codec EXCEPT !.stage = "parsed"] @@
                [parsed |-> parse_row(codec.content, codec.columns)]
    /\ UNCHANGED <<schema_file, row_files, returned, last, calls, callers, edits, gaps>>

\* the file is read under a schema other than the one it was written under
\* (the schema changed in between)
ParseRowUnder ==
    /\ codec.stage = "serialized"
    /\ \E columns \in CodecColumns :
          codec' = [codec EXCEPT !.stage = "reread"] @@
                   [read_columns |-> columns, reread |-> parse_row(codec.content, columns)]
    /\ UNCHANGED <<schema_file, row_files, returned, last, calls, callers, edits, gaps>>

NextCodec ==
    \/ SerializeRow
    \/ ParseRow
    \/ ParseRowUnder

SpecCodec == InitCodec /\ [][NextCodec]_vars

\* C5: a row whose field values match their column's type exactly comes back
\* from parse_row(serialize_row(row)) with the same fields and the same body
RowRoundTrip ==
    codec.stage = "parsed" =>
        /\ codec.parsed.ok
        /\ codec.parsed.fields = codec.fields
        /\ codec.parsed.body = codec.body

\* the same, for rows whose strings hold no quote and no backslash, whose
\* options do not read as another scalar and whose body starts with no newline
PlainText(s) == \A i \in 1..Len(s) : s[i] \notin {"\"", "\\"}

PlainRow ==
    /\ \A k \in DOMAIN codec.fields :
          LET v == codec.fields[k]
          IN /\ v.t = "str" => PlainText(v.s)
             /\ v.t = "arr" => \A i \in 1..Len(v.a) : ResolvePlain(v.a[i].s) = v.a[i]
    /\ codec.body = trim_start_newlines(codec.body)

PlainRowRoundTrip == PlainRow => RowRoundTrip

\* C14: a row read under a schema has in its fields map exactly the keys of
\* the file that are column ids of that schema, with the file's values: other
\* keys of the file are dropped and a column absent from the file is absent
\* from the map
ReadKeepsSchemaKeysOnly ==
    (codec.stage = "reread" /\ codec.reread.ok) =>
        LET raw == YamlMap(codec.content.yaml)
        IN /\ DOMAIN codec.reread.fields = ColumnIds(codec.read_columns) \cap YamlKeys(codec.content.yaml)
           /\ \A k \in DOMAIN codec.reread.fields : codec.reread.fields[k] = raw[k]
           /\ \A i \in 1..Len(codec.read_columns) :
                 codec.read_columns[i].id \notin YamlKeys(codec.content.yaml)
                     => codec.read_columns[i].id \notin DOMAIN codec.reread.fields

\* a file was read under a schema that lacks one of its keys and has a column
\* the file lacks
RereadUnderOtherSchema ==
    /\ codec.stage = "reread"
    /\ codec.reread.ok
    /\ YamlKeys(codec.content.yaml) \ ColumnIds(codec.read_columns) # {}
    /\ ColumnIds(codec.read_columns) \ YamlKeys(codec.content.yaml) # {}
    /\ DOMAIN codec.reread.fields # {}

\* ------------------------------------------------------------------------
\* Row identifiers
\* ------------------------------------------------------------------------

\* the number in a row id
RowNumber(name) == ParseNat(SubSeq(name, 5, Len(name)))

\* C1: the row ids returned by successive create_row calls on one database
\* are pairwise distinct and strictly increasing in allocation order
CreatedIdsIncrease ==
    \A i, j \in 1..Len(returned) :
        i < j => (returned[i] # returned[j] /\ RowNumber(returned[i]) < RowNumber(returned[j]))

\* three rows were created one after another
ThreeRowsCreated == Len(returned) >= 3 /\ last.op = "create_row" /\ last.ok

\* C2: over any sequence of calls the persisted next_row_id never decreases
\* and no row id is handed out twice
CounterNeverDecreases ==
    [][/\ (schema_file # NoFile /\ schema_file' # NoFile)
            => schema_file'.next_row_id >= schema_file.next_row_id
       /\ \A i, j \in 1..Len(returned') : i # j => returned'[i] # returned'[j]]_vars

\* C15: create_row saves the schema with the incremented counter before it
\* writes the row file, so when the write fails the allocated id is left as a
\* gap (the counter is past it, no file was written) and no later create
\* hands it out
GapIdsNeverHandedOut ==
    [][/\ (last'.op = "create_row" /\ last'.err = "Failed to write row file") =>
            /\ schema_file'.next_row_id = schema_file.next_row_id + 1
            /\ row_files' = row_files
       /\ (last'.op = "create_row" /\ last'.ok) => Unwrap(last'.id) \notin gaps]_vars

\* ------------------------------------------------------------------------
\* Schema migrations
\* ------------------------------------------------------------------------

\* the row of a file as get_database reloads it
Reload(files, stem, schema) == parse_row(files[stem], schema.columns)

\* every field of the row before is a field of the row after, with its value
FieldsKept(before, after, keys) ==
    \A k \in keys : k \in DOMAIN after.fields /\ after.fields[k] = before.fields[k]

\* C6: after add_column(c) succeeds the columns are the old columns followed
\* by c, and every existing row, reloaded, has c's type default under c.id if
\* it had no value under that key, with all its other field values unchanged
AddColumnAppendsAndDefaults ==
    [][(last'.op = "add_column" /\ last'.ok) =>
         LET c == last'.args.column
         IN /\ schema_file'.columns = Append(schema_file.columns, c)
            /\ \A s \in DOMAIN row_files :
                  LET before == Reload(row_files, s, schema_file)
                  IN before.ok =>
                        /\ s \in DOMAIN row_files'
                        /\ Reload(row_files', s, schema_file').ok
                        /\ c.id \notin YamlKeys(row_files[s].yaml) =>
                              /\ c.id \in DOMAIN Reload(row_files', s, schema_file').fields
                              /\ Reload(row_files', s, schema_file').fields[c.id] = default_json_value(c.col_type)
                        /\ FieldsKept(before, Reload(row_files', s, schema_file'), DOMAIN before.fields \ {c.id})]_vars

\* C7: after rename_column(old_id, new_id) succeeds the schema has a column
\* new_id at the same position and none with old_id, every row that held a
\* value under old_id holds it under new_id when reloaded, and the values of
\* all other columns are unchanged (stated for old_id # new_id: a rename of
\* an id to itself only changes the display name)
RenameColumnMovesValues ==
    [][(last'.op = "rename_column" /\ last'.ok
            /\ last'.args.old_column_id # last'.args.new_column_id) =>
         LET old_id == last'.args.old_column_id
             new_id == last'.args.new_column_id
         IN /\ Len(schema_file'.columns) = Len(schema_file.columns)
            /\ \A i \in 1..Len(schema_file.columns) :
                  schema_file.columns[i].id = old_id => schema_file'.columns[i].id = new_id
            /\ old_id \notin ColumnIds(schema_file'.columns)
            /\ \A s \in DOMAIN row_files :
                  LET before == Reload(row_files, s, schema_file)
                  IN before.ok =>
                        /\ s \in DOMAIN row_files'
                        /\ Reload(row_files', s, schema_file').ok
                        /\ old_id \in DOMAIN before.fields =>
                              /\ new_id \in DOMAIN Reload(row_files', s, schema_file').fields
                              /\ Reload(row_files', s, schema_file').fields[new_id] = before.fields[old_id]
                        /\ FieldsKept(before, Reload(row_files', s, schema_file'),
                                      DOMAIN before.fields \ {old_id, new_id})]_vars

\* a view does not mention a column
ViewFreeOf(view, column_id) ==
    /\ view.group_by # Some(column_id)
    /\ view.sort_by # Some(column_id)
    /\ IsSome(view.columns) => \A i \in 1..Len(Unwrap(view.columns)) : Unwrap(view.columns)[i] # column_id

\* C8: after remove_column(id) succeeds the schema has no column id, no view
\* references id (sort_desc cleared where sort_by was), no row file holds a
\* value under id, and all other columns, view settings and row values are
\* unchanged
RemoveColumnScrubs ==
    [][(last'.op = "remove_column" /\ last'.ok) =>
         LET id == last'.args.column_id
         IN /\ id \notin ColumnIds(schema_file'.columns)
            /\ schema_file'.columns = FilterCols(schema_file.columns, {id})
            /\ Len(schema_file'.views) = Len(schema_file.views)
            /\ \A v \in 1..Len(schema_file.views) :
                  LET old == schema_file.views[v]
                      new == schema_file'.views[v]
                  IN /\ ViewFreeOf(new, id)
                     /\ old.sort_by = Some(id) => new.sort_desc = None
                     /\ old.sort_by # Some(id) => (new.sort_by = old.sort_by /\ new.sort_desc = old.sort_desc)
                     /\ old.group_by # Some(id) => new.group_by = old.group_by
                     /\ new.id = old.id /\ new.name = old.name /\ new.view_type = old.view_type
                     /\ IsSome(new.columns) = IsSome(old.columns)
                     /\ IsSome(old.columns) => Unwrap(new.columns) = Retain(Unwrap(old.columns), id)
            /\ schema_file'.next_row_id = schema_file.next_row_id
            /\ DOMAIN row_files' = DOMAIN row_files
            /\ \A s \in DOMAIN row_files :
                  /\ id \notin YamlKeys(row_files'[s].yaml)
                  /\ LET before == Reload(row_files, s, schema_file)
                     IN before.ok =>
                           /\ Reload(row_files', s, schema_file').ok
                           /\ FieldsKept(before, Reload(row_files', s, schema_file'), DOMAIN before.fields \ {id})]_vars

\* C9: add_column(c) and then remove_column(c.id), on a schema without c.id,
\* returns the schema to its original column list
AddThenRemoveRestoresColumns ==
    [][\A column \in AddColumns :
          (/\ last.op = "add_column" /\ last.ok /\ last.args.column = column
           /\ Call("remove_column", [column_id |-> column.id],
                   remove_column(schema_file, row_files, column.id)))
          => /\ last'.ok
             /\ schema_file'.columns = SubSeq(schema_file.columns, 1, Len(schema_file.columns) - 1)]_vars

\* C10: no schema document written by the store holds two columns with the
\* same id
ColumnIdsUnique ==
    schema_file # NoFile =>
        \A i, j \in 1..Len(schema_file.columns) :
            schema_file.columns[i].id = schema_file.columns[j].id => i = j

\* C11: in every persisted schema each select or multi-select column carries
\* at least one option and each relation column carries a target
ColumnsCarryOptionsAndTarget ==
    schema_file # NoFile =>
        \A i \in 1..Len(schema_file.columns) :
            LET col == schema_file.columns[i]
            IN /\ col.col_type \in {"select", "multi-select"} =>
                     (IsSome(col.options) /\ Unwrap(col.options) # <<>>)
               /\ col.col_type = "relation" => (IsSome(col.target) /\ Unwrap(col.target) # <<>>)

\* C12: after update_row succeeds every given key that is a column holds the
\* given value, every column not mentioned keeps the value it had in the
\* file, and the body is the given one if one was given, else the old one
UpdateRowMerges ==
    [][(last'.op = "update_row" /\ last'.ok) =>
         LET a == last'.args
             before == Reload(row_files, a.row_id, schema_file)
             after == Reload(row_files', a.row_id, schema_file')
         IN /\ after.ok
            /\ \A k \in DOMAIN a.fields \cap ColumnIds(schema_file.columns) :
                  k \in DOMAIN after.fields /\ after.fields[k] = a.fields[k]
            /\ FieldsKept(before, after, DOMAIN before.fields \ DOMAIN a.fields)
            /\ after.body = IF IsSome(a.body) THEN Unwrap(a.body) ELSE before.body]_vars

\* the header of every row file lists the schema's column ids, in schema order
HeadersFollowSchema(sf, files) ==
    \A s \in DOMAIN files :
        [i \in 1..Len(files[s].yaml) |-> files[s].yaml[i].key] =
            [i \in 1..Len(sf.columns) |-> sf.columns[i].id]

\* C13: after any sequence of successful operations the header of every row
\* file lists exactly the column ids of the current schema, in schema-column
\* order (a successful call on a folder where this holds leaves it holding)
HeadersStayInSchemaOrder ==
    [][(/\ schema_file # NoFile
        /\ HeadersFollowSchema(schema_file, row_files)
        /\ last'.ok)
       => HeadersFollowSchema(schema_file', row_files')]_vars

\* C18: create_database fails without changing anything when the folder
\* exists; otherwise the new schema has the given columns, next_row_id 1 and
\* the single default table view when no view was given, and the first
\* create_row on it returns row-001, whose columns that were not supplied
\* read back as their type's default
CreateDatabaseThenFirstRow ==
    [][/\ last'.op = "create_database" =>
            IF schema_file # NoFile
            THEN ~last'.ok /\ schema_file' = schema_file /\ row_files' = row_files
            ELSE /\ last'.ok
                 /\ schema_file'.columns = last'.args.columns
                 /\ schema_file'.next_row_id = 1
                 /\ last'.args.views = None =>
                       /\ Len(schema_file'.views) = 1
                       /\ schema_file'.views[1].id = "default-table"
                       /\ schema_file'.views[1].view_type = "table"
                 /\ row_files' = row_files
       /\ \A fields \in FieldArgs, body \in BodyArgs :
             (/\ last.op = "create_database" /\ last.ok
              /\ Call("create_row", [fields |-> fields, body |-> body],
                      create_row(schema_file, row_files, fields, body)))
             => /\ last'.ok
                /\ last'.id = Some(row_name(1))
                /\ row_name(1) \in DOMAIN row_files'
                /\ LET row == Reload(row_files', row_name(1), schema_file')
                   IN /\ row.ok
                      /\ \A i \in 1..Len(schema_file'.columns) :
                            LET col == schema_file'.columns[i]
                            IN col.id \notin DOMAIN fields =>
                                  /\ col.id \in DOMAIN row.fields
                                  /\ row.fields[col.id] = default_json_value(col.col_type)]_vars

\* C19: after update_schema succeeds every row that loaded before it loads,
\* has the type default under every added column, holds no value under a
\* removed column, and has its old value under every column of both schemas
UpdateSchemaMigratesRows ==
    [][(last'.op = "update_schema" /\ last'.ok) =>
         LET old_ids == ColumnIds(schema_file.columns)
             new_ids == ColumnIds(schema_file'.columns)
         IN \A s \in DOMAIN row_files :
               LET before == Reload(row_files, s, schema_file)
                   after == Reload(row_files', s, schema_file')
               IN before.ok =>
                     /\ s \in DOMAIN row_files'
                     /\ after.ok
                     /\ \A i \in 1..Len(schema_file'.columns) :
                           LET col == schema_file'.columns[i]
                           IN col.id \notin old_ids =>
                                 /\ col.id \in DOMAIN after.fields
                                 /\ after.fields[col.id] = default_json_value(col.col_type)
                     /\ YamlKeys(row_files'[s].yaml) \cap (old_ids \ new_ids) = {}
                     /\ FieldsKept(before, after, DOMAIN before.fields \cap new_ids)]_vars

\* C20: update_schema keeps the old next_row_id when the submitted schema has
\* next_row_id 1 and the old counter is greater than 1, and stores the
\* submitted next_row_id in every other case
UpdateSchemaStoresCounter ==
    [][(last'.op = "update_schema" /\ last'.ok) =>
         schema_file'.next_row_id =
            IF last'.args.new_schema.next_row_id = 1 /\ schema_file.next_row_id > 1
            THEN schema_file.next_row_id
            ELSE last'.args.new_schema.next_row_id]_vars

\* a schema submitted with next_row_id 1 was stored with the old counter,
\* which was ahead
OldCounterKept ==
    /\ last.op = "update_schema"
    /\ last.ok
    /\ last.args.new_schema.next_row_id = 1
    /\ schema_file.next_row_id > 1

\* the calls that rewrite the rows after a change of the schema
MigrationOps == {"add_column", "remove_column", "rename_column", "update_schema"}

\* the header of a row file does not parse
Malformed(content) == ~YamlIsMap(content.yaml)

\* the keys of a file's header are the schema's column ids
KeysFollowSchema(content, sf) == YamlKeys(content.yaml) = ColumnIds(sf.columns)

\* C21: a migration over a folder that holds a malformed row file leaves
\* that file as it is, does not fail on it, and still migrates every other
\* row to the columns of the schema it stored
MalformedRowsSkipped ==
    [][(last'.op \in MigrationOps /\ load_schema_ok(schema_file)) =>
         \A s \in DOMAIN row_files :
            Malformed(row_files[s]) =>
               /\ last'.err # "Row file"
               /\ s \in DOMAIN row_files' /\ row_files'[s] = row_files[s]
               /\ (last'.ok /\ ColumnIds(schema_file'.columns) # ColumnIds(schema_file.columns)) =>
                     \A t \in DOMAIN row_files :
                        ~Malformed(row_files[t]) => KeysFollowSchema(row_files'[t], schema_file')]_vars

\* the step re-issues the interrupted call that came last, and runs whole
ReissueOfInterrupted ==
    /\ last.err = "Failed to update row"
    /\ CASE last.op = "add_column" ->
               Call("add_column", last.args, add_column(schema_file, row_files, last.args.column))
         [] last.op = "remove_column" ->
               Call("remove_column", last.args, remove_column(schema_file, row_files, last.args.column_id))
         [] last.op = "update_schema" ->
               Call("update_schema", last.args, update_schema(schema_file, row_files, last.args.new_schema))
         [] OTHER -> FALSE

\* every row file that parses has the schema's column ids as its keys
RowsMigrated(sf, files) ==
    \A s \in DOMAIN files : ~Malformed(files[s]) => KeysFollowSchema(files[s], sf)

\* C22: re-issuing an add_column, remove_column or update_schema that
\* failed partway through its row rewrite succeeds and leaves every row
\* file migrated to the schema, as the uninterrupted run would have
ReissueCompletesMigration ==
    [][ReissueOfInterrupted => (last'.ok /\ RowsMigrated(schema_file', row_files'))]_vars

\* the header of a file lists the schema's column ids, in their order
InNewForm(content, sf) ==
    [i \in 1..Len(content.yaml) |-> content.yaml[i].key] = [i \in 1..Len(sf.columns) |-> sf.columns[i].id]

\* the stored schema is the one the call (op, args) set out to store
SchemaIsNew(op, args, old, new) ==
    CASE op = "add_column" -> new.columns = Append(old.columns, args.column)
      [] op = "remove_column" ->
            /\ args.column_id \notin ColumnIds(new.columns)
            /\ Len(new.columns) = Len(old.columns) - 1
      [] op = "rename_column" ->
            /\ args.new_column_id \in ColumnIds(new.columns)
            /\ args.old_column_id # args.new_column_id => args.old_column_id \notin ColumnIds(new.columns)
      [] op = "update_schema" ->
            /\ new.columns = args.new_schema.columns
            /\ new.views = args.new_schema.views

\* C27: when a migration stops midway (a row write fails, or rename_column
\* meets a row it cannot read), the stored schema is already the new one
\* and each row file is either as it was or fully in the new form
SchemaSavedBeforeRows ==
    [][last'.err \in {"Failed to update row", "Row file"} =>
         /\ SchemaIsNew(last'.op, last'.args, schema_file, schema_file')
         /\ \A s \in DOMAIN row_files :
               \/ row_files'[s] = row_files[s]
               \/ InNewForm(row_files'[s], schema_file')]_vars

\* an add_column stopped after the first row: the first row has the new
\* column, the second has not
StoppedBetweenTwoRows ==
    /\ last.op = "add_column" /\ last.err = "Failed to update row"
    /\ last.args.column.id \in ColumnIds(schema_file.columns)
    /\ InNewForm(row_files[row_name(1)], schema_file)
    /\ last.args.column.id \notin YamlKeys(row_files[row_name(2)].yaml)

\* a reference to a column, the old id exchanged for the new one
Renamed(ref, old_column_id, new_column_id) == IF ref = old_column_id THEN new_column_id ELSE ref

\* an optional reference, exchanged likewise
RenamedOption(ref, old_column_id, new_column_id) ==
    IF IsSome(ref) THEN Some(Renamed(Unwrap(ref), old_column_id, new_column_id)) ELSE None

\* C28: after a successful rename_column(old_id, new_id) with old_id # new_id
\* every reference of a view to old_id (columns, group_by, sort_by) is a
\* reference to new_id, no view refers to old_id, and the display name of
\* the column changed only if a new name was supplied
RenameColumnUpdatesViews ==
    [][(last'.op = "rename_column" /\ last'.ok /\ last'.args.old_column_id # last'.args.new_column_id) =>
         LET old == last'.args.old_column_id
             new == last'.args.new_column_id
             new_name == last'.args.new_name
         IN /\ Len(schema_file'.views) = Len(schema_file.views)
            /\ \A v \in 1..Len(schema_file.views) :
                  LET before == schema_file.views[v]
                      after == schema_file'.views[v]
                  IN /\ after.group_by = RenamedOption(before.group_by, old, new)
                     /\ after.sort_by = RenamedOption(before.sort_by, old, new)
                     /\ IsSome(after.columns) = IsSome(before.columns)
                     /\ IsSome(before.columns) =>
                           Unwrap(after.columns) =
                              [i \in 1..Len(Unwrap(before.columns)) |-> Renamed(Unwrap(before.columns)[i], old, new)]
                     /\ after.group_by # Some(old)
                     /\ after.sort_by # Some(old)
                     /\ IsSome(after.columns) =>
                           \A i \in 1..Len(Unwrap(after.columns)) : Unwrap(after.columns)[i] # old
            /\ Len(schema_file'.columns) = Len(schema_file.columns)
            /\ \A i \in 1..Len(schema_file.columns) :
                  schema_file'.columns[i].name =
                     IF schema_file.columns[i].id = old /\ IsSome(new_name) THEN Unwrap(new_name)
                     ELSE schema_file.columns[i].name]_vars

\* status was renamed to state without a new name: the board view is
\* grouped and sorted by state and shows it, the column is still "Status"
ViewFollowsRenamedColumn ==
    /\ last.op = "rename_column"
    /\ last.ok
    /\ last.args.old_column_id = "status"
    /\ last.args.new_column_id = "state"
    /\ last.args.new_name = None
    /\ Len(schema_file.views) = 1
    /\ schema_file.views[1].group_by = Some("state")
    /\ schema_file.views[1].sort_by = Some("state")
    /\ schema_file.views[1].columns = Some(<<"title", "state">>)
    /\ \E i \in 1..Len(schema_file.columns) :
          schema_file.columns[i].id = "state" /\ schema_file.columns[i].name = "Status"

\* the call failed and the folder is as it was
RejectedWithoutChange ==
    /\ ~last'.ok
    /\ schema_file' = schema_file
    /\ row_files' = row_files

\* C29: add_column with an id the schema has, remove_column of a column it
\* has not, and rename_column with an old id it has not or with a new id
\* that is another column's each return an error and leave the schema
\* document and every row file unchanged
RejectedMigrationChangesNothing ==
    [][schema_file # NoFile =>
         /\ \A column \in AddColumns :
               (/\ column.id \in ColumnIds(schema_file.columns)
                /\ Call("add_column", [column |-> column], add_column(schema_file, row_files, column)))
                  => RejectedWithoutChange
         /\ \A column_id \in ColumnIdArgs :
               (/\ column_id \notin ColumnIds(schema_file.columns)
                /\ Call("remove_column", [column_id |-> column_id],
                        remove_column(schema_file, row_files, column_id)))
                  => RejectedWithoutChange
         /\ \A old_column_id \in ColumnIdArgs, new_column_id \in NewColumnIdArgs, new_name \in NewNameArgs :
               (/\ \/ old_column_id \notin ColumnIds(schema_file.columns)
                   \/ (new_column_id # old_column_id /\ new_column_id \in ColumnIds(schema_file.columns))
                /\ Call("rename_column",
                        [old_column_id |-> old_column_id, new_column_id |-> new_column_id, new_name |-> new_name],
                        rename_column(schema_file, row_files, old_column_id, new_column_id, new_name)))
                  => RejectedWithoutChange]_vars

\* an add_column was turned down for its id in a folder that has rows
AddColumnTurnedDown ==
    /\ last.op = "add_column"
    /\ ~last.ok
    /\ last.err = "Column already exists"
    /\ DOMAIN row_files # {}

\* C36: a create_row never overwrites a row file: the file it writes did
\* not exist before the call, whatever calls came before (delete_row and
\* update_schema among them)
CreateWritesNewFile ==
    [][(calls' = calls + 1 /\ last'.op = "create_row" /\ last'.ok)
          => Unwrap(last'.id) \notin DOMAIN row_files]_vars

\* ------------------------------------------------------------------------
\* Row calls with any row_id, the stem of the schema document among them
\* ------------------------------------------------------------------------

AnyRowIdArgs == {row_name(1), SchemaStem}

UpdateRowById ==
    \E row_id \in AnyRowIdArgs, fields \in FieldArgs, body \in BodyArgs :
        Call("update_row", [row_id |-> row_id, fields |-> fields, body |-> body],
             update_row(schema_file, row_files, row_id, fields, body))

DeleteRowById ==
    \E row_id \in AnyRowIdArgs :
        Call("delete_row", [row_id |-> row_id], delete_row(schema_file, row_files, row_id))

NextRowIds ==
    \/ CreateDatabase
    \/ CreateRow
    \/ UpdateRowById
    \/ DeleteRowById

SpecRowIds == Init /\ [][NextRowIds]_vars

\* C37: update_row and delete_row touch row files only: whatever the row_id,
\* the schema document (next_row_id included) is after the call what it was
\* before
RowCallsLeaveSchemaDocument ==
    [][(calls' = calls + 1 /\ last'.op \in {"update_row", "delete_row"})
          => schema_file' = schema_file]_vars

\* ------------------------------------------------------------------------
\* Row calls on a folder that is not a database yet, and calls with the
\* name of a template the schema does not have
\* ------------------------------------------------------------------------

CreateTemplateDatabase ==
    \E columns \in {<<ColTitle, ColStatus>>, <<ColPriority, ColDone>>} :
        Call("create_database", [columns |-> columns, views |-> None],
             create_database(schema_file, row_files, columns, None))

\* update_schema with the schema as it was read and the templates put in
BringTemplates ==
    /\ load_schema_ok(schema_file)
    /\ Call("update_schema", [new_schema |-> SchemaWithTemplates(schema_file)],
            update_schema(schema_file, row_files, SchemaWithTemplates(schema_file)))

NextTurnedDown ==
    \/ CreateTemplateDatabase
    \/ BringTemplates
    \/ CreateRowFromTemplate
    \/ CreateRow
    \/ UpdateRow

SpecTurnedDown == Init /\ [][NextTurnedDown]_vars

\* the call made in this step names a template the schema does not have
UnknownTemplateCalled ==
    /\ last'.op = "create_row_from_template"
    /\ load_schema_ok(schema_file)
    /\ last'.args.template_name \notin DOMAIN schema_file.templates

\* the call made in this step is a row call on a folder without a schema
\* document
RowCallOutsideDatabase ==
    /\ last'.op \in {"create_row", "update_row", "create_row_from_template"}
    /\ ~is_database_folder(schema_file)

\* C38: create_row_from_template with a template name the schema does not
\* have, and create_row or update_row on a folder that is not a database,
\* return an error and leave the schema document (next_row_id included) and
\* every row file as they were
TurnedDownRowCallChangesNothing ==
    [][(calls' = calls + 1 /\ (UnknownTemplateCalled \/ RowCallOutsideDatabase))
          => /\ ~last'.ok
             /\ schema_file' = schema_file
             /\ row_files' = row_files]_vars

\* a database with templates and one row, the counter at 2, was asked for a
\* row from a template that the schema does not have
UnknownTemplateAfterTemplateRow ==
    /\ last.op = "create_row_from_template"
    /\ last.err = "Template not found"
    /\ last.args.template_name = "missing"
    /\ load_schema_ok(schema_file)
    /\ DOMAIN schema_file.templates # {}
    /\ schema_file.next_row_id = 2
    /\ DOMAIN row_files = {row_name(1)}

\* ------------------------------------------------------------------------
\* Queries over a database with a few rows
\* ------------------------------------------------------------------------

\* at most this many rows are inserted before the queries
MaxRows == 3

QueryColumns == <<ColTitle, ColStatus, ColPriority>>

QueryFieldArgs ==
    {[k \in {"status", "priority"} |-> IF k = "status" THEN JStr(<<"D", "o", "n", "e">>) ELSE JNum(2)],
     [k \in {"status", "priority"} |-> IF k = "status" THEN JStr(<<"D", "o", "n", "e">>) ELSE JNum(1)],
     [k \in {"status", "priority"} |-> IF k = "status" THEN JStr(<<"T", "o", "d", "o">>) ELSE JNum(1)],
     [k \in {"title"} |-> JStr(<<"k">>)],
     [k \in {"title"} |-> JStr(<<"\"">>)]}

StatusIsDone == Filter("status", "eq", Some(JStr(<<"D", "o", "n", "e">>)))

PriorityAboveOne == Filter("priority", "gt", Some(JNum(1)))

FilterArgs ==
    {None,
     Some(<<>>),
     Some(<<StatusIsDone>>),
     Some(<<Filter("priority", "eq", Some(JNum(1)))>>),
     Some(<<StatusIsDone, PriorityAboveOne>>),
     Some(<<PriorityAboveOne, StatusIsDone>>),
     Some(<<Filter("status", "neq", Some(JStr(<<"D", "o", "n", "e">>))), Filter("priority", "lte", Some(JNum(1)))>>),
     Some(<<Filter("status", "contains", Some(JStr(<<"O">>))), Filter("title", "is_empty", None)>>)}

SortArgs == {None, Some(Sort("priority", "asc")), Some(Sort("status", "desc"))}

LimitArgs == {0, 1, 2, 100}

OffsetArgs == {0, 1, 5}

InitQuery ==
    LET db == create_database(NoFile, <<>>, QueryColumns, None)
    IN /\ schema_file = db.schema_file
       /\ row_files = db.row_files
       /\ returned = <<>>
       /\ last = NoCall
       /\ calls = 0
       /\ codec = Idle
       /\ callers = NoCallers
       /\ edits = 0
       /\ gaps = {}

\* db_insert_row_impl: a row is inserted
InsertRow ==
    /\ Cardinality(DOMAIN row_files) < MaxRows
    /\ \E fields \in QueryFieldArgs :
          Call("create_row", [fields |-> fields, body |-> None],
               create_row(schema_file, row_files, fields, None))

\* db_query_impl: the folder is read, nothing is written (a query that
\* follows a query reads the same folder, so one query is asked at a time
\* between the inserts)
DbQuery ==
    /\ last.op # "db_query"
    /\ \E filters \in FilterArgs, sort \in SortArgs, limit \in LimitArgs, offset \in OffsetArgs :
          last' = [op |-> "db_query",
                   args |-> [filters |-> filters, sort |-> sort, limit |-> limit, offset |-> offset],
                   id |-> None]
                  @@ db_query_impl(schema_file, row_files, filters, sort, limit, offset)
    /\ UNCHANGED <<schema_file, row_files, returned, calls, codec, callers, edits, gaps>>

NextQuery ==
    \/ InsertRow
    \/ DbQuery

SpecQuery == InitQuery /\ [][NextQuery]_vars

\* the clauses of a query's filter argument
ClausesOf(filters) == IF IsSome(filters) THEN Unwrap(filters) ELSE <<>>

\* the ids of the rows a result holds
ResultIds(rows) == {rows[i].id : i \in 1..Len(rows)}

\* C16: a query returns exactly the rows that pass every clause of its filter
\* (whatever the order of the clauses); with the one clause {field, eq, v}
\* these are the rows whose field equals v, and with no clause all the rows
QueryReturnsRowsPassingEveryClause ==
    (last.op = "db_query" /\ last.ok) =>
        LET all == load_rows(row_files, schema_file.columns)
            clauses == ClausesOf(last.args.filters)
            passing == {i \in 1..Len(all) : \A f \in 1..Len(clauses) : filter_matches(all[i], clauses[f])}
        IN /\ last.total = Cardinality(passing)
           /\ ResultIds(last.rows) \subseteq {all[i].id : i \in passing}
           /\ (last.args.offset = 0 /\ last.args.limit >= last.total) =>
                 ResultIds(last.rows) = {all[i].id : i \in passing}
           /\ (Len(clauses) = 1 /\ clauses[1].operator = "eq" /\ IsSome(clauses[1].value)) =>
                 passing = {i \in 1..Len(all) :
                               /\ clauses[1].field \in DOMAIN all[i].fields
                               /\ all[i].fields[clauses[1].field] = Unwrap(clauses[1].value)}
           /\ clauses = <<>> => last.total = Len(all)

\* a query with two clauses returned some of the rows and not all of them
TwoClausesSelectSomeRows ==
    /\ last.op = "db_query"
    /\ last.ok
    /\ Len(ClausesOf(last.args.filters)) = 2
    /\ last.args.offset = 0
    /\ Len(last.rows) = last.total
    /\ last.total > 0
    /\ last.total < Cardinality(DOMAIN row_files)

\* C17: a query returns min(limit, max(0, total - offset)) rows, the rows at
\* the positions offset .. offset+limit of the filtered and sorted sequence,
\* and total is the number of rows that passed the filter
PageIsSliceOfFilteredRows ==
    (last.op = "db_query" /\ last.ok) =>
        LET filtered == apply_filters(load_rows(row_files, schema_file.columns), ClausesOf(last.args.filters))
            sorted == apply_sort(filtered, last.args.sort)
            rest == IF last.total - last.args.offset > 0 THEN last.total - last.args.offset ELSE 0
        IN /\ last.total = Len(filtered)
           /\ Len(last.rows) = IF last.args.limit < rest THEN last.args.limit ELSE rest
           /\ \A i \in 1..Len(last.rows) : last.rows[i].id = sorted[last.args.offset + i].id

\* a page from the middle of three rows or more
PageFromTheMiddle ==
    /\ last.op = "db_query"
    /\ last.ok
    /\ last.args.offset = 1
    /\ last.args.limit = 1
    /\ last.total >= 3
    /\ Len(last.rows) = 1

\* the row files that parse under the schema
ParsingFiles(files, sf) == {s \in DOMAIN files : parse_row(files[s], sf.columns).ok}

\* C23: a load never fails on a malformed row file; it returns one row for
\* every row file that parses under the schema, with the fields and body
\* read from it, and none for a file that does not parse
LoadSkipsMalformedRows ==
    last.op = "db_query" =>
        /\ last.ok
        /\ ResultIds(last.rows) \subseteq ParsingFiles(row_files, schema_file)
        /\ \A i \in 1..Len(last.rows) :
              LET row == parse_row(row_files[last.rows[i].id], schema_file.columns)
              IN last.rows[i].fields = row.fields /\ last.rows[i].body = row.body
        /\ (ClausesOf(last.args.filters) = <<>> /\ last.args.offset = 0
               /\ last.args.limit >= Cardinality(DOMAIN row_files)) =>
              /\ ResultIds(last.rows) = ParsingFiles(row_files, schema_file)
              /\ Len(last.rows) = Cardinality(ParsingFiles(row_files, schema_file))

\* all rows were asked for from a folder with a malformed row file between
\* two that parse, and the two came back
MalformedFileBetweenLoadedRows ==
    /\ last.op = "db_query"
    /\ last.ok
    /\ ClausesOf(last.args.filters) = <<>>
    /\ last.args.sort = None
    /\ last.args.offset = 0
    /\ last.args.limit = 100
    /\ DOMAIN row_files = {row_name(1), row_name(2), row_name(3)}
    /\ Malformed(row_files[row_name(2)])
    /\ [i \in 1..Len(last.rows) |-> last.rows[i].id] = <<row_name(1), row_name(3)>>

\* ------------------------------------------------------------------------
\* Queries over rows that hold every kind of value, one of which was
\* written before the column "priority" was added
\* ------------------------------------------------------------------------

KindColumns == <<ColTitle, ColDone, ColTags>>

KindFieldArgs ==
    {[k \in {"title", "priority", "done", "tags"} |->
        CASE k = "title" -> JStr(<<"b">>)
          [] k = "priority" -> JNum(2)
          [] k = "done" -> JBool(TRUE)
          [] k = "tags" -> JArr(<<JStr(<<"k">>)>>)],
     [k \in {"title", "priority", "done"} |->
        CASE k = "title" -> JStr(<<"a">>)
          [] k = "priority" -> JNum(1)
          [] k = "done" -> JBool(FALSE)],
     [k \in {"title", "priority", "done"} |->
        CASE k = "title" -> JStr(<<"B">>)
          [] k = "priority" -> JNum(1)
          [] k = "done" -> JBool(TRUE)],
     <<>>}

OrderingOperators == {"gt", "gte", "lt", "lte"}

NegationOf(operator) ==
    CASE operator = "eq" -> "neq"
      [] operator = "contains" -> "not_contains"
      [] operator = "is_empty" -> "is_not_empty"

\* the field and the value of the clauses asked with an ordering operator
OrderingOperands ==
    {<<"priority", Some(JNum(1))>>, <<"title", Some(JStr(<<"a">>))>>,
     <<"priority", Some(JStr(<<"1">>))>>, <<"title", None>>}

\* the field and the value of the clauses asked with an operator and with
\* its negation
PairedOperands ==
    {<<"priority", Some(JNum(1))>>, <<"priority", None>>, <<"title", Some(JStr(<<"B">>))>>,
     <<"tags", Some(JStr(<<"K">>))>>, <<"done", Some(JBool(TRUE))>>}

KindFilterArgs ==
    {None}
    \cup {Some(<<Filter(o[1], operator, o[2])>>) : o \in OrderingOperands, operator \in OrderingOperators}
    \cup {Some(<<Filter(o[1], operator, o[2])>>) :
             o \in PairedOperands,
             operator \in {"eq", "neq", "contains", "not_contains", "is_empty", "is_not_empty"}}

KindSortArgs ==
    {None} \cup {Some(Sort(field, direction)) :
                    field \in {"priority", "title", "done"}, direction \in {"asc", "desc"}}

\* the folder after create_database, a create_row and an add_column of
\* "priority" whose write of the row file failed
InitKinds ==
    \E first \in {f \in KindFieldArgs : DOMAIN f # {}} :
        LET r == add_column_interrupted(
                     CreateRowAfter(create_database(NoFile, <<>>, KindColumns, None), first).schema_file,
                     CreateRowAfter(create_database(NoFile, <<>>, KindColumns, None), first).row_files,
                     ColPriority, 1)
        IN /\ schema_file = r.schema_file
           /\ row_files = r.row_files
           /\ returned = <<row_name(1)>>
           /\ last = NoCall
           /\ calls = 0
           /\ codec = Idle
           /\ callers = NoCallers
           /\ edits = 0
           /\ gaps = {}

\* db_insert_row_impl: a row of these kinds of value is inserted
InsertKindRow ==
    /\ Cardinality(DOMAIN row_files) < MaxRows
    /\ \E fields \in KindFieldArgs :
          Call("create_row", [fields |-> fields, body |-> None],
               create_row(schema_file, row_files, fields, None))

\* db_query_impl with one clause at most, all the rows asked for
DbQueryKinds ==
    /\ last.op # "db_query"
    /\ \E filters \in KindFilterArgs, sort \in KindSortArgs :
          last' = [op |-> "db_query",
                   args |-> [filters |-> filters, sort |-> sort, limit |-> 100, offset |-> 0],
                   id |-> None]
                  @@ db_query_impl(schema_file, row_files, filters, sort, 100, 0)
    /\ UNCHANGED <<schema_file, row_files, returned, calls, codec, callers, edits, gaps>>

NextKinds ==
    \/ InsertKindRow
    \/ DbQueryKinds

SpecKinds == InitKinds /\ [][NextKinds]_vars

\* the one clause of the query asked last
TheClause == ClausesOf(last.args.filters)[1]

\* the query asked last had one clause, with one of these operators
OneClauseQuery(operators) ==
    /\ last.op = "db_query"
    /\ last.ok
    /\ Len(ClausesOf(last.args.filters)) = 1
    /\ TheClause.operator \in operators

\* what an ordering operator asks of the two values, given whether the
\* first is less than the second and whether they are equal
OrderingAsks(operator, less, equal) ==
    CASE operator = "gt" -> ~less /\ ~equal
      [] operator = "gte" -> ~less
      [] operator = "lt" -> less
      [] operator = "lte" -> less \/ equal

\* C31: with gt, gte, lt or lte a row matches when it has a value for the
\* field and that value stands in the asked order to the filter value: the
\* order of the numbers when both are numbers, the lexicographic order of
\* the strings otherwise (a value that is not a string compared as the empty
\* string); a row without a value for the field never matches
OrderingComparesNumbersOrStrings ==
    OneClauseQuery(OrderingOperators) =>
        LET all == load_rows(row_files, schema_file.columns)
            field == TheClause.field
            matching ==
                {i \in 1..Len(all) :
                    /\ field \in DOMAIN all[i].fields
                    /\ IsSome(TheClause.value)
                    /\ LET rv == all[i].fields[field]
                           fv == Unwrap(TheClause.value)
                       IN IF rv.t = "num" /\ fv.t = "num"
                          THEN OrderingAsks(TheClause.operator, rv.n < fv.n, rv.n = fv.n)
                          ELSE OrderingAsks(TheClause.operator,
                                            LexLess(as_str_or_empty(rv), as_str_or_empty(fv)),
                                            as_str_or_empty(rv) = as_str_or_empty(fv))}
        IN ResultIds(last.rows) = {all[i].id : i \in matching}

\* "priority lte 1" was asked: a row with the number 0 came back, a row
\* with the number 2 and the row without the field did not
OrderingLeavesOutRowWithoutValue ==
    /\ OneClauseQuery({"lte"})
    /\ TheClause.field = "priority"
    /\ TheClause.value = Some(JNum(1))
    /\ LET all == load_rows(row_files, schema_file.columns)
       IN /\ \E i \in 1..Len(all) : "priority" \notin DOMAIN all[i].fields /\ all[i].id \notin ResultIds(last.rows)
          /\ \E i \in 1..Len(all) :
                /\ "priority" \in DOMAIN all[i].fields
                /\ all[i].fields["priority"] = JNum(2)
                /\ all[i].id \notin ResultIds(last.rows)
          /\ \E i \in 1..Len(all) :
                /\ "priority" \in DOMAIN all[i].fields
                /\ all[i].fields["priority"] = JNum(0)
                /\ all[i].id \in ResultIds(last.rows)

\* the query asked last was sorted on a field
SortedQuery ==
    /\ last.op = "db_query"
    /\ last.ok
    /\ IsSome(last.args.sort)
    /\ Unwrap(last.args.sort).field # ""

SortField == Unwrap(last.args.sort).field

SortDirection == Unwrap(last.args.sort).direction

\* C32: in the result of a query sorted on a field, ascending or
\* descending, every row without the field comes before every row with it
RowsWithoutFieldComeFirst ==
    SortedQuery =>
        \A i, j \in 1..Len(last.rows) :
            (SortField \notin DOMAIN last.rows[i].fields /\ SortField \in DOMAIN last.rows[j].fields) => i < j

\* C33: a sorted query returns the filtered rows, each once; of two rows
\* whose values for the field are both numbers, both booleans or both
\* strings the one with the smaller value comes first with asc and the one
\* with the greater value with desc, and two rows that compare equal stay
\* in the order of their ids
SortOrdersValuesAndIsStable ==
    SortedQuery =>
        LET filtered == apply_filters(load_rows(row_files, schema_file.columns), ClausesOf(last.args.filters))
            Value(i) == last.rows[i].fields[SortField]
            Rank(v) == CASE v.t = "num" -> v.n
                         [] v.t = "bool" -> IF v.b THEN 1 ELSE 0
                         [] OTHER -> 0
            Below(v, w) == IF v.t = "str" THEN LexLess(v.s, w.s) ELSE Rank(v) < Rank(w)
            SameKind(i, j) ==
                /\ SortField \in DOMAIN last.rows[i].fields
                /\ SortField \in DOMAIN last.rows[j].fields
                /\ Value(i).t = Value(j).t
                /\ Value(i).t \in {"num", "bool", "str"}
        IN /\ Len(last.rows) = Len(filtered)
           /\ ResultIds(last.rows) = ResultIds(filtered)
           /\ Cardinality(ResultIds(last.rows)) = Len(last.rows)
           /\ \A i, j \in 1..Len(last.rows) :
                 (i < j /\ SameKind(i, j)) =>
                     /\ SortDirection = "asc" => ~Below(Value(j), Value(i))
                     /\ SortDirection = "desc" => ~Below(Value(i), Value(j))
                     /\ Value(i) = Value(j) =>
                           StemIndex(list_row_files(row_files), last.rows[i].id)
                               < StemIndex(list_row_files(row_files), last.rows[j].id)

\* three rows came back sorted by their titles, the greatest first, and
\* the two with the same title in the order of their ids; the folder lists
\* the row with the greatest title between the two
SortedDescendingWithTie ==
    /\ SortedQuery
    /\ SortField = "title"
    /\ SortDirection = "desc"
    /\ [i \in 1..Len(last.rows) |-> last.rows[i].id] = <<row_name(2), row_name(1), row_name(3)>>
    /\ last.rows[1].fields["title"] = JStr(<<"b">>)
    /\ last.rows[2].fields["title"] = JStr(<<"a">>)
    /\ last.rows[3].fields["title"] = JStr(<<"a">>)

\* the ids of the rows the query asked last would have returned with this
\* operator in its clause
IdsWith(operator) ==
    ResultIds(db_query_impl(schema_file, row_files,
                            Some(<<Filter(TheClause.field, operator, TheClause.value)>>),
                            last.args.sort, 100, 0).rows)

\* C34: of the operators eq and neq, contains and not_contains, is_empty
\* and is_not_empty exactly one matches a row, whatever the row holds for
\* the field and whatever the filter value: the rows a query returns with
\* the one and the rows it returns with the other are the two parts of the
\* rows of the database
NegatedOperatorSelectsTheOtherRows ==
    OneClauseQuery({"eq", "contains", "is_empty"}) =>
        LET all == ResultIds(load_rows(row_files, schema_file.columns))
        IN /\ ResultIds(last.rows) \cap IdsWith(NegationOf(TheClause.operator)) = {}
           /\ ResultIds(last.rows) \cup IdsWith(NegationOf(TheClause.operator)) = all
           /\ ResultIds(last.rows) = IdsWith(TheClause.operator)

\* "contains" was asked of the tags: a row with the tag came back; a row
\* with other tags, a row with no tag and the row whose file is without
\* a priority are the rows of not_contains
ContainsSplitsRowsByTag ==
    /\ OneClauseQuery({"contains"})
    /\ TheClause.field = "tags"
    /\ Len(last.rows) = 1
    /\ Cardinality(IdsWith("not_contains")) = 2
    /\ row_name(1) \in IdsWith("not_contains")

\* ------------------------------------------------------------------------
\* The ETag-guarded update under concurrent callers
\* ------------------------------------------------------------------------

\* at most this many modifications of the row file by someone else
MaxEdits == 1

\* the row the callers work on, and what each of them asks to change
EtagRow == row_name(1)

CallerFields(c) == [k \in {"title"} |-> JStr(IF c = "A" THEN <<"k">> ELSE <<"m">>)]

ExternalFields == [k \in {"title", "status"} |-> JStr(<<"x">>)]

\* the database of the concurrent callers: created, with one row
InitEtag ==
    LET db == create_database(NoFile, <<>>, <<ColTitle, ColStatus>>, None)
        row == create_row(db.schema_file, db.row_files, <<>>, None)
    IN /\ schema_file = row.schema_file
       /\ row_files = row.row_files
       /\ returned = <<Unwrap(row.id)>>
       /\ last = NoCall
       /\ calls = 0
       /\ codec = Idle
       /\ callers = NoCallers
       /\ edits = 0
       /\ gaps = {}

EtagFrame == UNCHANGED <<schema_file, returned, last, calls, codec, gaps>>

\* db_query_impl: the caller reads the row and its ETag (seen: the row
\* file as it was when the caller was given the ETag; from: the call that
\* gave it)
Query(c) ==
    /\ callers[c].pc = "idle"
    /\ EtagRow \in DOMAIN row_files
    /\ callers' = [callers EXCEPT ![c] = [pc |-> "check", etag |-> row_etag(row_files, EtagRow),
                                          seen |-> row_files[EtagRow], from |-> "query"]]
    /\ UNCHANGED <<row_files, edits>>
    /\ EtagFrame

\* the check without the comparison of the ETags
db_update_row_check_no_etag(files, row_id, etag) ==
    IF row_id \notin DOMAIN files THEN "Row not found" ELSE ""

\* db_update_row_impl, the check of the presented ETag against the file:
\* the text the error starts with, or "" when the update may proceed
db_update_row_check(files, row_id, etag) ==
    IF row_id \notin DOMAIN files THEN "Row not found"
    ELSE IF compute_etag(files[row_id]) # etag THEN "CONFLICT"
    ELSE ""

CheckEtag(c) ==
    /\ callers[c].pc = "check"
    /\ LET err == db_update_row_check(row_files, EtagRow, callers[c].etag)
       IN callers' = [callers EXCEPT ![c] =
                         IF err = "" THEN [@ EXCEPT !.pc = "read"]
                         ELSE [pc |-> "done", etag |-> @.etag, result |-> [ok |-> FALSE, err |-> err]]]
    /\ UNCHANGED <<row_files, edits>>
    /\ EtagFrame

\* update_row, up to the read of the existing row: the content it will write
ReadExisting(c) ==
    /\ callers[c].pc = "read"
    /\ LET r == update_row(schema_file, row_files, EtagRow, CallerFields(c), None)
       IN callers' = [callers EXCEPT ![c] =
                         IF r.ok THEN [pc |-> "write", etag |-> @.etag, content |-> r.row_files[EtagRow]]
                         ELSE [pc |-> "done", etag |-> @.etag, result |-> [ok |-> FALSE, err |-> r.err]]]
    /\ UNCHANGED <<row_files, edits>>
    /\ EtagFrame

\* update_row, the write of the merged row
WriteRow(c) ==
    /\ callers[c].pc = "write"
    /\ row_files' = WriteFile(row_files, EtagRow, callers[c].content)
    /\ callers' = [callers EXCEPT ![c] = [pc |-> "readback", etag |-> @.etag]]
    /\ UNCHANGED edits
    /\ EtagFrame

\* db_update_row_impl, the read of the updated row for its new ETag
ReadBack(c) ==
    /\ callers[c].pc = "readback"
    /\ callers' = [callers EXCEPT ![c] =
                      IF EtagRow \in DOMAIN row_files
                      THEN [pc |-> "done", etag |-> @.etag, seen |-> row_files[EtagRow],
                            result |-> [ok |-> TRUE, err |-> "", etag |-> compute_etag(row_files[EtagRow])]]
                      ELSE [pc |-> "done", etag |-> @.etag,
                            result |-> [ok |-> FALSE, err |-> "Failed to read updated row"]]]
    /\ UNCHANGED <<row_files, edits>>
    /\ EtagFrame

\* someone else modifies the row file (an update_row without ETag)
ExternalEdit ==
    /\ edits < MaxEdits
    /\ LET r == update_row(schema_file, row_files, EtagRow, ExternalFields, Some(<<"b">>))
       IN /\ r.ok
          /\ row_files' = r.row_files
    /\ edits' = edits + 1
    /\ UNCHANGED callers
    /\ EtagFrame

NextEtag ==
    \/ \E c \in Callers : Query(c)
    \/ \E c \in Callers : CheckEtag(c)
    \/ \E c \in Callers : ReadExisting(c)
    \/ \E c \in Callers : WriteRow(c)
    \/ \E c \in Callers : ReadBack(c)
    \/ ExternalEdit

SpecEtag == InitEtag /\ [][NextEtag]_vars

\* C3: an ETag-guarded update that presents an ETag E read before someone
\* else modified the row file fails with an error starting with CONFLICT and
\* leaves the row file unchanged
StaleEtagConflicts ==
    [][\A c \in Callers :
          (/\ callers[c].pc = "check"
           /\ callers'[c].pc # "check"
           /\ EtagRow \in DOMAIN row_files
           /\ compute_etag(row_files[EtagRow]) # callers[c].etag)
          => /\ callers'[c].pc = "done"
             /\ ~callers'[c].result.ok
             /\ callers'[c].result.err = "CONFLICT"
             /\ row_files' = row_files]_vars

\* a caller read the row, someone else modified it, and the caller's update
\* was rejected
ConflictAfterEdit ==
    \E c \in Callers :
        /\ callers[c].pc = "done"
        /\ callers[c].result.err = "CONFLICT"
        /\ edits > 0
        /\ compute_etag(row_files[EtagRow]) # callers[c].etag

\* C4: of two callers that read the row at the same ETag E and both present E
\* to the ETag-guarded update, at most one has its update applied (the other
\* is rejected with CONFLICT), whatever the interleaving of their steps
AtMostOneUpdateApplied ==
    \A c, d \in Callers :
        (/\ c # d
         /\ edits = 0
         /\ callers[c].pc = "done"
         /\ callers[d].pc = "done"
         /\ callers[c].etag = callers[d].etag)
        => ~(callers[c].result.ok /\ callers[d].result.ok)

\* ------------------------------------------------------------------------
\* Callers that go on updating the row with the ETag of their last update
\* ------------------------------------------------------------------------

\* db_update_row_impl asked again, with the ETag the caller's update returned
UpdateAgain(c) ==
    /\ callers[c].pc = "done"
    /\ callers[c].result.ok
    /\ callers' = [callers EXCEPT ![c] = [pc |-> "check", etag |-> @.result.etag,
                                          seen |-> @.seen, from |-> "update"]]
    /\ UNCHANGED <<row_files, edits>>
    /\ EtagFrame

NextEtagChain ==
    \/ \E c \in Callers : Query(c)
    \/ \E c \in Callers : CheckEtag(c)
    \/ \E c \in Callers : ReadExisting(c)
    \/ \E c \in Callers : WriteRow(c)
    \/ \E c \in Callers : ReadBack(c)
    \/ \E c \in Callers : UpdateAgain(c)
    \/ ExternalEdit

SpecEtagChain == InitEtag /\ [][NextEtagChain]_vars

\* C35: the ETag a caller was given last, by a query or by its own
\* successful update, is accepted by its next update unless the row file
\* was modified after the caller was given it: an update is turned down
\* with CONFLICT only when the row file is no longer what it was then
ConflictOnlyAfterModification ==
    [][\A c \in Callers :
          (/\ callers[c].pc = "check"
           /\ callers'[c].pc = "done"
           /\ callers'[c].result.err = "CONFLICT")
          => row_files[EtagRow] # callers[c].seen]_vars

\* a caller's second update, with the ETag its first update returned, was
\* let through after the other caller had been turned down
ReturnedEtagAccepted ==
    \E c, d \in Callers :
        /\ callers[c].pc = "read"
        /\ callers[c].from = "update"
        /\ row_files[EtagRow] = callers[c].seen
        /\ callers[d].pc = "done"
        /\ callers[d].result.err = "CONFLICT"

\* ------------------------------------------------------------------------
\* create_row and add_column under interleaved callers: each call reads the
\* schema document, changes its copy, saves it and then writes row files,
\* and the steps of two callers interleave
\* ------------------------------------------------------------------------

CounterColumns == {ColPriority, ColDone}

\* the database of the interleaved callers: created, without rows
InitCounter ==
    LET db == create_database(NoFile, <<>>, <<ColTitle, ColStatus>>, None)
    IN /\ schema_file = db.schema_file
       /\ row_files = db.row_files
       /\ returned = <<>>
       /\ last = NoCall
       /\ calls = 0
       /\ codec = Idle
       /\ callers = NoCallers
       /\ edits = 0
       /\ gaps = {}

CounterFrame == UNCHANGED <<last, codec, edits, gaps>>

\* create_row: load_schema and next_row_filename on the loaded copy
CreateRowLoad(c) ==
    /\ calls < MaxCalls
    /\ callers[c].pc = "idle"
    /\ load_schema_ok(schema_file)
    /\ callers' = [callers EXCEPT ![c] = [pc |-> "allocated", alloc |-> next_row_filename(schema_file)]]
    /\ calls' = calls + 1
    /\ UNCHANGED <<schema_file, row_files, returned>>
    /\ CounterFrame

\* create_row: save_schema of the copy with the incremented counter
CreateRowSave(c) ==
    /\ callers[c].pc = "allocated"
    /\ schema_file' = callers[c].alloc.schema
    /\ callers' = [callers EXCEPT ![c] = [@ EXCEPT !.pc = "saved"]]
    /\ UNCHANGED <<row_files, returned, calls>>
    /\ CounterFrame

\* create_row: the write of the row file, and the return of the row
CreateRowWrite(c) ==
    /\ callers[c].pc = "saved"
    /\ row_files' = WriteFile(row_files, callers[c].alloc.name,
                              serialize_row(CallerFields(c), <<>>, callers[c].alloc.schema.columns))
    /\ returned' = Append(returned, callers[c].alloc.name)
    /\ callers' = [callers EXCEPT ![c] = [pc |-> "idle"]]
    /\ UNCHANGED <<schema_file, calls>>
    /\ CounterFrame

\* add_column: load_schema and the check of the column id
AddColumnLoad(c) ==
    /\ calls < MaxCalls
    /\ callers[c].pc = "idle"
    /\ load_schema_ok(schema_file)
    /\ \E column \in CounterColumns :
          /\ column.id \notin ColumnIds(schema_file.columns)
          /\ callers' = [callers EXCEPT ![c] = [pc |-> "migrating", loaded |-> schema_file, column |-> column]]
    /\ calls' = calls + 1
    /\ UNCHANGED <<schema_file, row_files, returned>>
    /\ CounterFrame

\* add_column: save_schema of the copy with the column pushed
AddColumnSave(c) ==
    /\ callers[c].pc = "migrating"
    /\ schema_file' = add_column(callers[c].loaded, <<>>, callers[c].column).schema_file
    /\ callers' = [callers EXCEPT ![c] = [@ EXCEPT !.pc = "sweep"]]
    /\ UNCHANGED <<row_files, returned, calls>>
    /\ CounterFrame

\* add_column: the rewrite of the row files that are there
AddColumnSweep(c) ==
    /\ callers[c].pc = "sweep"
    /\ row_files' = add_column(callers[c].loaded, row_files, callers[c].column).row_files
    /\ callers' = [callers EXCEPT ![c] = [pc |-> "idle"]]
    /\ UNCHANGED <<schema_file, returned, calls>>
    /\ CounterFrame

NextCounter ==
    \/ \E c \in Callers : CreateRowLoad(c)
    \/ \E c \in Callers : CreateRowSave(c)
    \/ \E c \in Callers : CreateRowWrite(c)
    \/ \E c \in Callers : AddColumnLoad(c)
    \/ \E c \in Callers : AddColumnSave(c)
    \/ \E c \in Callers : AddColumnSweep(c)

SpecCounter == InitCounter /\ [][NextCounter]_vars

\* C39: under interleaved callers a create_row gets an id that no other row
\* has, whether it runs together with another create_row or with a
\* migration: the file it writes is not there before, and the counter it
\* saved is not taken back by the other caller's save of the schema
ConcurrentCreateGetsFreshId ==
    [][\A c \in Callers :
          (callers[c].pc = "saved" /\ callers'[c].pc = "idle")
          => /\ callers[c].alloc.name \notin DOMAIN row_files
             /\ \A i \in 1..Len(returned) : returned[i] # callers[c].alloc.name]_vars

====
